---- MODULE Spec2Model ----
(***************************************************************************)
(* A model of the WWASD relay (src/app.py): the symbol normalizer, the     *)
(* POST /tv ingest handler with its shared-secret check, the two           *)
(* last-value stores, and the read endpoints /tv/latest and /blofin/latest.*)
(* SpecStore models the persisted snapshot store _BlofinStore              *)
(* (src/_archive/blofin_hardening.py) step by step, with its lock, its two *)
(* files, write failures and restarts; SpecRace models a /tv/latest read   *)
(* on a worker thread interleaved with POST /tv.                           *)
(*                                                                         *)
(* Python strings that the code inspects character by character (symbols,  *)
(* the type tag) are sequences of one-character strings.  Opaque strings   *)
(* (tokens, route names, payload markers) are TLA+ strings.                *)
(***************************************************************************)
EXTENDS Integers, Sequences, FiniteSets, TLC

None == "None"

(***************************************************************************)
(* Bounds of the model.                                                    *)
(***************************************************************************)
\* longest symbol, in tokens, fed to the normalizer
MaxTokens == 3
\* number of POST /tv requests in one run
MaxPosts == 2
\* largest max_age_secs a reader passes explicitly
MaxAgeSecs == 1
\* the clock is read at the instants number 0..MaxInstant
MaxInstant == 2
\* update calls made on the persisted store
MaxUpdates == 2
\* restarts of the process holding the persisted store
MaxBoots == 1
\* webhook calls made on the daily relay
MaxAlerts == 2
\* load() calls of the page that await a response at one time
MaxInFlight == 2
\* longest alert log handed to filter_today
MaxLogLen == 2
\* most items in the data list of one POST /tv_indicators
MaxItems == 2
\* last millisecond of the clock of the indicator endpoint
MaxIndClock == 2
\* most call_gpt5 calls of the OpenAI relay
MaxGptCalls == 2

(***************************************************************************)
(* str methods used by the code.                                           *)
(***************************************************************************)
LowerLetters == <<"a","b","c","d","e","f","g","h","i","j","k","l","m",
                  "n","o","p","q","r","s","t","u","v","w","x","y","z">>
UpperLetters == <<"A","B","C","D","E","F","G","H","I","J","K","L","M",
                  "N","O","P","Q","R","S","T","U","V","W","X","Y","Z">>

\* characters str.strip() with no argument removes
Whitespace == {" ", "\t", "\n", "\r", "\f"}

\* the characters of the model, in code-point order (Python compares
\* strings by code point)
AsciiOrder == <<"\t", "\n", "\f", "\r", " ", ",", ".", "/",
                "0","1","2","3","4","5","6","7","8","9", ":">>
              \o UpperLetters \o <<"_">> \o LowerLetters

Chars == { AsciiOrder[i] : i \in 1..Len(AsciiOrder) }

UpperChar ==
    [c \in Chars |->
        IF \E i \in 1..26 : LowerLetters[i] = c
        THEN UpperLetters[CHOOSE i \in 1..26 : LowerLetters[i] = c]
        ELSE c]

\* str.upper()
Upper(s) == [i \in 1..Len(s) |-> UpperChar[s[i]]]

LowerChar ==
    [c \in Chars |->
        IF \E i \in 1..26 : UpperLetters[i] = c
        THEN LowerLetters[CHOOSE i \in 1..26 : UpperLetters[i] = c]
        ELSE c]

\* str.lower()
Lower(s) == [i \in 1..Len(s) |-> LowerChar[s[i]]]

\* str.lstrip() / str.rstrip() / str.strip()
RECURSIVE LStrip(_)
LStrip(s) == IF s # <<>> /\ Head(s) \in Whitespace THEN LStrip(Tail(s)) ELSE s

RECURSIVE RStrip(_)
RStrip(s) ==
    IF s # <<>> /\ s[Len(s)] \in Whitespace
    THEN RStrip(SubSeq(s, 1, Len(s) - 1))
    ELSE s

Strip(s) == RStrip(LStrip(s))

\* str.replace(c, "") for a one-character c
RemoveChar(s, c) == SelectSeq(s, LAMBDA ch : ch # c)

\* sub in s
Contains(s, sub) ==
    \E i \in 1..(Len(s) - Len(sub) + 1) : SubSeq(s, i, i + Len(sub) - 1) = sub

\* str.startswith / str.endswith
StartsWith(s, pre) == Len(s) >= Len(pre) /\ SubSeq(s, 1, Len(pre)) = pre
EndsWith(s, suf) ==
    Len(s) >= Len(suf) /\ SubSeq(s, Len(s) - Len(suf) + 1, Len(s)) = suf

\* s.split(c, 1) for s containing c: the text before and after the first c
FirstIndex(s, c) == CHOOSE i \in 1..Len(s) : s[i] = c /\ \A j \in 1..(i - 1) : s[j] # c
SplitBefore(s, c) == SubSeq(s, 1, FirstIndex(s, c) - 1)
SplitAfter(s, c) == SubSeq(s, FirstIndex(s, c) + 1, Len(s))

(***************************************************************************)
(* String literals of the code.                                            *)
(***************************************************************************)
S_BLOFIN == <<"B","L","O","F","I","N">>
S_CRYPTOCAP == <<"C","R","Y","P","T","O","C","A","P">>
S_USDT_P == <<"U","S","D","T",".","P">>
S_SLASH_USDT_P == <<"/">> \o S_USDT_P
S_WWASD_STATE == <<"W","W","A","S","D","_","S","T","A","T","E">>
S_BLOFIN_POSITIONS == S_BLOFIN \o <<"_","P","O","S","I","T","I","O","N","S">>
S_blofin_positions == <<"b","l","o","f","i","n","_","p","o","s","i","t","i","o","n","s">>

_MACRO_BARE_HINTS == { <<"T","O","T","A","L">> }
_MACRO_SUFFIX_HINTS == { <<".","D">>, <<".","C">> }

(***************************************************************************)
(* Symbol normalization.                                                   *)
(***************************************************************************)
looks_like_macro_bare(sym_no_ns) ==
    LET u == Upper(sym_no_ns) IN
    \/ \E h \in _MACRO_BARE_HINTS : StartsWith(u, h)
    \/ \E sfx \in _MACRO_SUFFIX_HINTS : EndsWith(u, sfx)

\* mutant: the namespace before the colon is dropped
canonical_symbol_StripNs(sym) ==
    LET s == RemoveChar(Upper(Strip(sym)), " ") IN
    IF s = <<>> THEN s
    ELSE IF Contains(s, <<":">>) THEN RemoveChar(SplitAfter(s, ":"), "/")
    ELSE IF looks_like_macro_bare(s) THEN S_CRYPTOCAP \o <<":">> \o s
    ELSE IF Contains(s, S_SLASH_USDT_P) THEN S_BLOFIN \o <<":">> \o RemoveChar(s, "/")
    ELSE IF EndsWith(s, S_USDT_P) THEN S_BLOFIN \o <<":">> \o s
    ELSE s

canonical_symbol(sym) ==
    LET s == RemoveChar(Upper(Strip(sym)), " ") IN
    IF s = <<>> THEN s
    ELSE IF Contains(s, <<":">>)
    THEN LET ns == SplitBefore(s, ":")
             rest == SplitAfter(s, ":")
         IN IF ns = S_BLOFIN
            THEN ns \o <<":">> \o RemoveChar(rest, "/")
            ELSE ns \o <<":">> \o rest
    ELSE IF looks_like_macro_bare(s) THEN S_CRYPTOCAP \o <<":">> \o s
    ELSE IF Contains(s, S_SLASH_USDT_P) THEN S_BLOFIN \o <<":">> \o RemoveChar(s, "/")
    ELSE IF EndsWith(s, S_USDT_P) THEN S_BLOFIN \o <<":">> \o s
    ELSE s

\* os.getenv(name, "").split(","): the pieces of raw between commas
RECURSIVE SplitComma(_)
SplitComma(raw) ==
    IF ~Contains(raw, <<",">>) THEN <<raw>>
    ELSE <<SplitBefore(raw, ",")>> \o SplitComma(SplitAfter(raw, ","))

RECURSIVE CanonPieces(_)
CanonPieces(pieces) ==
    IF pieces = <<>> THEN <<>>
    ELSE LET tok == Strip(Head(pieces)) IN
         IF tok = <<>> THEN CanonPieces(Tail(pieces))
         ELSE <<canonical_symbol(tok)>> \o CanonPieces(Tail(pieces))

_split_env_list(raw) == CanonPieces(SplitComma(raw))

(***************************************************************************)
(* Python's "<" on str.                                                    *)
(***************************************************************************)
Ord == [c \in Chars |-> CHOOSE i \in 1..Len(AsciiOrder) : AsciiOrder[i] = c]

\* a < b: at the first position where they differ a has the smaller
\* character, or a is a proper prefix of b
StrLess(a, b) ==
    LET n == IF Len(a) < Len(b) THEN Len(a) ELSE Len(b)
        diff == { i \in 1..n : a[i] # b[i] }
    IN IF diff = {} THEN Len(a) < Len(b)
       ELSE LET i == CHOOSE d \in diff : \A e \in diff : d <= e
            IN Ord[a[i]] < Ord[b[i]]

(***************************************************************************)
(* dict operations.  A dict is a function from field names to values.      *)
(***************************************************************************)
EmptyDict == <<>>
Get(d, k, default) == IF k \in DOMAIN d THEN d[k] ELSE default
SetKey(d, k, v) == (k :> v) @@ d

(***************************************************************************)
(* State.                                                                  *)
(***************************************************************************)
VARIABLES
    AUTH_SHARED_SECRET,     \* configured shared secret, "" when not configured
    state_by_symbol,        \* canonical symbol -> latest WWASD_STATE dict
    blofin_positions_push,  \* latest BLOFIN_POSITIONS dict, or None
    now,                    \* the server clock, in ms (now_ms())
    nPosts,                 \* POST /tv requests handled so far
    resp,                   \* response of the request just handled (for a
                            \* GET, with the query parameters it answered)
    last_accepted,          \* history: canonical symbol -> the body of the last
                            \* accepted WWASD_STATE request, its arrival time and
                            \* the number of requests accepted for the symbol
    sym_in,                 \* a string handed to the normalizer
    sym_images,             \* its successive images under canonical_symbol
    \* _BlofinStore (src/_archive/blofin_hardening.py)
    last,                   \* self.last
    lock,                   \* self.lock: the update call holding it, or 0
    fs,                     \* the files at self.path and self.path + ".tmp"
    upd,                    \* the update calls: position and, in flight, obj
    persisted,              \* obj of the latest _write_atomic that completed
    boots,                  \* restarts of the process so far
    hres,                   \* the latest response of the /blofin/latest route
    time_ms,                \* int(time.time() * 1000)
    \* a /tv/latest read in progress on a worker thread
    rd,                     \* the read: position, iterator, items so far
    key_order,              \* insertion order of the keys of state_by_symbol
    \* the daily relay (src/relay_daily.py)
    alert_log,              \* alert_log: today's alerts, in arrival order
    last_log_date,          \* last_log_date: a UTC date, or None
    utc_now,                \* datetime.now(timezone.utc), in seconds
    wh,                     \* the calls of tradingview_webhook: where each is
    summary,                \* what the last /daily-summary answered
    \* the /port2.html page in a browser
    page_kind,              \* which of the two pages is loaded
    dom,                    \* the elements the script writes to
    inflight,               \* load() calls awaiting their response
    timer,                  \* the interval set by setInterval is armed
    done,                   \* how the load() that just finished ended
    \* the daily wrap-up script (src/daily_wrapup.py)
    alerts,                 \* the list handed to filter_today
    wrap_now,               \* datetime.now(timezone.utc), in seconds
    alerts_today,           \* what filter_today returned
    \* POST /tv_indicators (src/app.py)
    INDICATORS,             \* INDICATORS: {"ts": ..., "data": {sym: entry}}
    ind_now,                \* _now_ms()
    ind_resp,               \* response of the request just handled, with the
                            \* symbols it wrote
    \* the OpenAI relay (src/_archive/relay_openai.py)
    AUTH_SHARED,            \* AUTH_SHARED, "" when not configured
    gpt_calls,              \* the calls of call_gpt5 so far, with their request
    oa_resp,                \* response of the request just handled
    \* the alert setup script (src/setup_alerts.py)
    sniper,                 \* sniper mode
    tf_pos,                 \* position of process_symbol in its list of timeframes
    tf_step,                \* what it does next: switch the chart or create
    chart_tf,               \* the timeframe the chart shows
    created                 \* the alerts created, each with the chart it was
                            \* created on

relayVars == <<AUTH_SHARED_SECRET, state_by_symbol,
               blofin_positions_push, now, nPosts, resp, last_accepted>>
canonVars == <<sym_in, sym_images>>
storeVars == <<last, lock, fs, upd, persisted, boots, hres, time_ms>>
raceVars == <<rd, key_order>>
dailyVars == <<alert_log, last_log_date, utc_now, wh, summary>>
pageVars == <<page_kind, dom, inflight, timer, done>>
\* the programs beside the relay, its normalizer and the persisted store
wrapVars == <<alerts, wrap_now, alerts_today>>
indVars == <<INDICATORS, ind_now, ind_resp>>
openaiVars == <<AUTH_SHARED, gpt_calls, oa_resp>>
setupVars == <<sniper, tf_pos, tf_step, chart_tf, created>>
toolVars == <<wrapVars, indVars, openaiVars, setupVars>>
sideVars == <<dailyVars, pageVars, toolVars>>
\* the relay, its normalizer, the persisted store, the daily relay and the page
coreVars == <<relayVars, canonVars, storeVars, raceVars, dailyVars, pageVars>>

vars == <<relayVars, canonVars, storeVars, raceVars, sideVars>>

\* what a request to the relay leaves alone
nonRelayVars == <<canonVars, storeVars, raceVars, sideVars>>

(***************************************************************************)
(* Environment of the process and the inputs of the requests.              *)
(***************************************************************************)
SYM_LINK_SLASH == <<"L","I","N","K">> \o S_SLASH_USDT_P
SYM_link_padded == <<" ","l","i","n","k","u","s","d","t",".","p"," ">>
SYM_TOTAL3 == <<"T","O","T","A","L","3">>
SYM_BLANK == <<" ", "\t">>
SYM_ns_total3 == <<"c","r","y","p","t","o","c","a","p",":">> \o <<"t","o","t","a","l","3">>
SYM_SLASH_link == <<"/","l","i","n","k">> \o S_USDT_P

ENV_GREEN_LIST == SYM_LINK_SLASH
ENV_MACRO_LIST == <<>>
ENV_FULL_LIST == SYM_SLASH_link \o <<",">> \o SYM_TOTAL3

GREEN_LIST == _split_env_list(ENV_GREEN_LIST)
MACRO_LIST == _split_env_list(ENV_MACRO_LIST)
FULL_LIST == _split_env_list(ENV_FULL_LIST)

Secrets == {"", "s3cret"}

\* JSON objects posted to /tv
StateBodies ==
    { [type |-> S_WWASD_STATE, symbol |-> SYM_LINK_SLASH, state |-> "long"],
      [type |-> <<"w","w","a","s","d","_","s","t","a","t","e">>,
       symbol |-> SYM_link_padded, state |-> "flat"],
      \* a namespaced symbol, and fields the sender set itself
      [type |-> S_WWASD_STATE, symbol |-> SYM_ns_total3, state |-> "long",
       token |-> "s3cret", server_received_ms |-> 5000000, is_fresh |-> TRUE],
      [type |-> S_WWASD_STATE, symbol |-> SYM_BLANK, state |-> "long"],
      [type |-> S_WWASD_STATE, state |-> "flat"] }
\* a positions push: the records are the list at data.data
POSITION_RECORDS ==
    << [instId |-> "BTC-USDT", positions |-> "1.5"],
       [instId |-> "ETH-USDT", positions |-> "-2"] >>
PositionBodies ==
    { [type |-> S_BLOFIN_POSITIONS, data |-> [data |-> POSITION_RECORDS],
       server_received_ms |-> 5000000] }
OtherBodies ==
    { [type |-> <<"P","I","N","G">>, symbol |-> SYM_LINK_SLASH, state |-> "long"],
      EmptyDict }
Bodies == StateBodies \cup PositionBodies \cup OtherBodies

\* a POST /tv request: the ?token= query parameter, a token sent as a
\* request header, and the JSON object of the body
Carriers ==
    { [qs_token |-> None, hdr_token |-> None],
      [qs_token |-> "s3cret", hdr_token |-> None],
      [qs_token |-> "wrong", hdr_token |-> None],
      [qs_token |-> None, hdr_token |-> "s3cret"] }
Requests ==
    { [qs_token |-> c.qs_token, hdr_token |-> c.hdr_token, body |-> b] :
        c \in Carriers, b \in Bodies }

\* request bodies that are not a JSON object: one that does not parse, and
\* valid JSON texts of the other types
RawTexts == { "{\"type\":", "[1]", "\"abc\"", "5", "null" }
MalformedRequests ==
    { [qs_token |-> t, hdr_token |-> None, raw |-> x] :
        t \in {None, "s3cret"}, x \in RawTexts }

\* values of the list= query parameter
ListNames ==
    { <<>>, <<" ","G","r","e","e","n">>, <<"m","a","c","r","o">>,
      <<"f","u","l","l">>, <<"b","o","g","u","s">> }
\* FRESH_CUTOFF_SECS = int(os.getenv("FRESH_CUTOFF_SECS", "5400"))
FRESH_CUTOFF_SECS == 5400

\* [s.strip().lower() for s in lists.split(",") if s.strip()]
SnapNamesOf(lists) ==
    LET kept == SelectSeq(SplitComma(lists), LAMBDA piece : Strip(piece) # <<>>)
    IN [i \in 1..Len(kept) |-> Lower(Strip(kept[i]))]

\* values of the lists= query parameter of GET /snap: the default, a list
\* named like one of the response's own keys, and a padded spelling
S_ts == <<"t","s">>
S_port == <<"p","o","r","t">>
SnapLists ==
    { <<"g","r","e","e","n",",","m","a","c","r","o">>,
      S_ts,
      <<" ","F","u","l","l",","," ",",">> \o S_port }
SnapNames == UNION { { SnapNamesOf(l)[i] : i \in 1..Len(SnapNamesOf(l)) } : l \in SnapLists }

\* explicit values of the max_age_secs= query parameter
MaxAges == 1..MaxAgeSecs

\* the queries of GET /tv/latest: the bare route, and every list with
\* every explicit window
LatestQueries ==
    { [list |-> <<>>, max_age_secs |-> FRESH_CUTOFF_SECS] }
    \cup { [list |-> l, max_age_secs |-> a] : l \in ListNames, a \in MaxAges }

\* the instants the clock is read at: 0, and the edge of each whole-second
\* window and the millisecond after it (0, 1000, 1001, 2000, 2001, ...)
InstantAt(i) == IF i = 0 THEN 0 ELSE 1000 * ((i + 1) \div 2) + (1 - (i % 2))
Instants == { InstantAt(i) : i \in 0..MaxInstant }

(***************************************************************************)
(* POST /tv                                                                *)
(***************************************************************************)
\* Python truthiness of a token value
Truthy(v) == v # None /\ v # ""

\* mutant: any non-empty token passes
require_secret_if_set_AnyToken(secret, qs_token, body) ==
    IF ~Truthy(secret) THEN TRUE
    ELSE Truthy(qs_token) \/ Truthy(Get(body, "token", None))

\* mutant: only the query parameter is consulted
require_secret_if_set_QueryOnly(secret, qs_token, body) ==
    IF ~Truthy(secret) THEN TRUE
    ELSE Truthy(qs_token) /\ qs_token = secret

\* TRUE when the request passes, FALSE when HTTPException(403) is raised
require_secret_if_set(secret, qs_token, body) ==
    IF ~Truthy(secret) THEN TRUE
    ELSE LET body_token == Get(body, "token", None) IN
         /\ Truthy(qs_token) \/ Truthy(body_token)
         /\ qs_token = secret \/ body_token = secret

\* typ = str(data.get("type", "")).upper()
TypOf(data) == Upper(Get(data, "type", <<>>))

\* mutant: the symbol is not trimmed
RawSymOf_NoStrip(data) == Get(data, "symbol", <<>>)

\* raw_sym = str(data.get("symbol", "")).strip()
RawSymOf(data) == Strip(Get(data, "symbol", <<>>))

\* mutant: the record keeps the sender's spelling of the symbol
StateRecord_KeepRaw(data, raw_sym, sym) == SetKey(data, "symbol", Upper(raw_sym))

\* the dict stored for a WWASD_STATE request
StateRecord(data, raw_sym, sym) ==
    LET d1 == IF Upper(raw_sym) # sym
              THEN SetKey(data, "raw_symbol", Upper(raw_sym))
              ELSE data
    IN SetKey(d1, "symbol", sym)

\* mutant: an existing record is kept (setdefault)
StoreState_KeepFirst(store, sym, data) ==
    [k \in DOMAIN store \cup {sym} |-> IF k \in DOMAIN store THEN store[k] ELSE data]

\* mutant: the store is rebuilt with the new record alone
StoreState_Only(store, sym, data) == [k \in {sym} |-> data]

\* mutant: the record is written to every key of the store
StoreState_Clobber(store, sym, data) == [k \in DOMAIN store \cup {sym} |-> data]

\* state_by_symbol[sym] = data
StoreState(store, sym, data) ==
    [k \in DOMAIN store \cup {sym} |-> IF k = sym THEN data ELSE store[k]]

\* mutant: every type other than WWASD_STATE is taken for a snapshot
BranchOf_NoIgnore(typ) == IF typ = S_WWASD_STATE THEN "state" ELSE "positions"

\* which branch of the handler a type tag selects
BranchOf(typ) ==
    IF typ = S_WWASD_STATE THEN "state"
    ELSE IF typ = S_BLOFIN_POSITIONS THEN "positions"
    ELSE "ignored"

Forbidden == [route |-> "POST /tv", status |-> 403, body |-> [detail |-> "Unauthorized"]]
MissingSymbol ==
    [route |-> "POST /tv", status |-> 400,
     body |-> [detail |-> "Missing symbol for WWASD_STATE"]]
StoredResp(what) ==
    [route |-> "POST /tv", status |-> 200, body |-> [ok |-> TRUE, stored |-> what]]
IgnoredResp ==
    [route |-> "POST /tv", status |-> 200, body |-> [ok |-> TRUE, ignored |-> TRUE]]

\* what the handler reads off a body, tabulated over the bodies of the
\* model (none of it depends on the receipt stamp)
Parsed ==
    [b \in Bodies |->
        [typ |-> TypOf(b),
         raw_sym |-> RawSymOf(b),
         sym |-> canonical_symbol(RawSymOf(b)),
         key |-> canonical_symbol(Get(b, "symbol", <<>>))]]

\* mutant: a stamp the sender supplied is kept
Stamp_KeepSender(body, t) ==
    IF "server_received_ms" \in DOMAIN body THEN body
    ELSE SetKey(body, "server_received_ms", t)

\* data["server_received_ms"] = now_ms()
Stamp(body, t) == SetKey(body, "server_received_ms", t)

\* the handler's effect on the relay
tv_ingest_body(r) ==
    LET data == Stamp(r.body, now)
        typ == Parsed[r.body].typ
        raw_sym == Parsed[r.body].raw_sym
        sym == Parsed[r.body].sym
    IN
    /\ nPosts < MaxPosts
    /\ nPosts' = nPosts + 1
    /\ IF ~require_secret_if_set(AUTH_SHARED_SECRET, r.qs_token, data)
       THEN /\ resp' = Forbidden
            /\ UNCHANGED <<state_by_symbol, blofin_positions_push, last_accepted>>
       ELSE IF BranchOf(typ) = "state"
       THEN IF raw_sym = <<>>
            THEN /\ resp' = MissingSymbol
                 /\ UNCHANGED <<state_by_symbol, blofin_positions_push, last_accepted>>
            ELSE /\ state_by_symbol' =
                        StoreState(state_by_symbol, sym, StateRecord(data, raw_sym, sym))
                 /\ resp' = StoredResp(sym)
                 /\ last_accepted' =
                        LET key == Parsed[r.body].key
                            before == IF key \in DOMAIN last_accepted
                                      THEN last_accepted[key].n ELSE 0
                        IN (key :> [body |-> r.body, at |-> now, n |-> before + 1])
                               @@ last_accepted
                 /\ UNCHANGED blofin_positions_push
       ELSE IF BranchOf(typ) = "positions"
       THEN /\ blofin_positions_push' = data
            /\ resp' = StoredResp(S_blofin_positions)
            /\ UNCHANGED <<state_by_symbol, last_accepted>>
       ELSE /\ resp' = IgnoredResp
            /\ UNCHANGED <<state_by_symbol, blofin_positions_push, last_accepted>>
    /\ UNCHANGED <<AUTH_SHARED_SECRET, now>>

\* json.loads(raw): the Python type of the value, or the error raised
json_loads_type(raw) ==
    CASE raw = "[1]" -> "list"
      [] raw = "\"abc\"" -> "str"
      [] raw = "5" -> "int"
      [] raw = "null" -> "NoneType"
      [] OTHER -> "JSONDecodeError"

BadJson == [route |-> "POST /tv", status |-> 400, body |-> [detail |-> "Bad JSON"]]
\* an exception no handler catches: the framework answers 500
ServerError ==
    [route |-> "POST /tv", status |-> 500, body |-> [detail |-> "Internal Server Error"]]

\* the handler on a body that is not a JSON object: a parse error is
\* answered 400; any other value reaches data["server_received_ms"] = ...,
\* which raises TypeError before the secret is looked at
tv_ingest_raw(r) ==
    /\ nPosts < MaxPosts
    /\ nPosts' = nPosts + 1
    /\ resp' = IF json_loads_type(r.raw) = "JSONDecodeError" THEN BadJson
                ELSE ServerError
    /\ UNCHANGED <<AUTH_SHARED_SECRET, state_by_symbol, blofin_positions_push,
                   now, last_accepted>>

tv_ingest(r) ==
    /\ IF "raw" \in DOMAIN r THEN tv_ingest_raw(r) ELSE tv_ingest_body(r)
    /\ UNCHANGED nonRelayVars

(***************************************************************************)
(* GET /tv/latest                                                          *)
(***************************************************************************)
SeqToSet(q) == { q[i] : i \in 1..Len(q) }

\* Optional[set]: a set of symbols, or Python's None
SomeSet(S) == [is_none |-> FALSE, set |-> S]
NoneSet == [is_none |-> TRUE, set |-> {}]

_filter_symbols(list_name) ==
    LET ln == Strip(Lower(list_name)) IN
    IF ln = <<"g","r","e","e","n">> THEN SomeSet(SeqToSet(GREEN_LIST))
    ELSE IF ln = <<"m","a","c","r","o">> THEN SomeSet(SeqToSet(MACRO_LIST))
    ELSE IF ln = <<"f","u","l","l">> THEN SomeSet(SeqToSet(FULL_LIST))
    ELSE NoneSet

\* mutant: the edge of the window is stale
IsFresh_Strict(t, received, max_age_secs) == (t - received) < max_age_secs * 1000

\* (now - received) <= max_age_secs * 1000
IsFresh(t, received, max_age_secs) == (t - received) <= max_age_secs * 1000

\* items.sort(key=lambda x: x.get("symbol", ""))
RECURSIVE SortBySymbol(_)
SortBySymbol(items) ==
    IF items = {} THEN <<>>
    ELSE LET m == CHOOSE x \in items :
                    \A y \in items : ~StrLess(Get(y, "symbol", <<>>), Get(x, "symbol", <<>>))
         IN <<m>> \o SortBySymbol(items \ {m})

\* sel = _filter_symbols(list), canonicalized when it is a set; tabulated
\* over the list names of the model
CanonFilter(list_name) ==
    LET sel == _filter_symbols(list_name) IN
    IF sel.is_none THEN sel
    ELSE SomeSet({ canonical_symbol(x) : x \in sel.set })

FilterTable == [l \in ListNames \cup SnapNames |-> CanonFilter(l)]

\* the symbols of the store that the filter lets through
Selected(store, list_name) ==
    LET sel == FilterTable[list_name] IN
    IF sel.is_none THEN DOMAIN store
    ELSE { k \in DOMAIN store : k \in sel.set }

\* mutant: an is_fresh the record already carries is reported as it is
LatestBody_KeepStored(store, t, list_name, max_age_secs) ==
    LET items ==
            SortBySymbol({ IF "is_fresh" \in DOMAIN store[k] THEN store[k]
                           ELSE SetKey(store[k], "is_fresh",
                                       IsFresh(t, Get(store[k], "server_received_ms", t),
                                               max_age_secs)) :
                           k \in Selected(store, list_name) })
    IN [count |-> Len(items), items |-> items]

LatestBody(store, t, list_name, max_age_secs) ==
    LET items ==
            SortBySymbol({ SetKey(store[k], "is_fresh",
                                  IsFresh(t, Get(store[k], "server_received_ms", t),
                                          max_age_secs)) :
                           k \in Selected(store, list_name) })
    IN [count |-> Len(items), items |-> items]

tv_latest(list_name, max_age_secs) ==
    /\ resp' = [route |-> "GET /tv/latest", status |-> 200,
                req |-> [list |-> list_name, max_age_secs |-> max_age_secs],
                body |-> LatestBody(state_by_symbol, now, list_name, max_age_secs)]
    /\ UNCHANGED <<AUTH_SHARED_SECRET, state_by_symbol,
                   blofin_positions_push, now, nPosts, last_accepted>>
    /\ UNCHANGED nonRelayVars

(***************************************************************************)
(* GET /blofin/latest                                                      *)
(***************************************************************************)
NoDict == <<>>

BlofinBody(push, t, max_age_secs) ==
    IF push = NoDict
    THEN [fresh |-> FALSE, ts |-> None, data |-> None]
    ELSE [fresh |-> IsFresh(t, Get(push, "server_received_ms", t), max_age_secs),
          ts |-> Get(push, "server_received_ms", None),
          data |-> push]

blofin_latest(max_age_secs) ==
    /\ resp' = [route |-> "GET /blofin/latest", status |-> 200,
                req |-> [max_age_secs |-> max_age_secs],
                body |-> BlofinBody(blofin_positions_push, now, max_age_secs)]
    /\ UNCHANGED <<AUTH_SHARED_SECRET, state_by_symbol,
                   blofin_positions_push, now, nPosts, last_accepted>>
    /\ UNCHANGED nonRelayVars

(***************************************************************************)
(* The clock.                                                              *)
(***************************************************************************)
NoResp == [route |-> "", status |-> 0, body |-> EmptyDict]

\* time passes between requests; resp is the response of a request only
\* in the state that request leads to
Tick ==
    /\ \E t \in Instants : t > now /\ now' = t
    /\ resp' = NoResp
    /\ UNCHANGED <<AUTH_SHARED_SECRET, state_by_symbol,
                   blofin_positions_push, nPosts, last_accepted>>
    /\ UNCHANGED nonRelayVars

(***************************************************************************)
(* The relay.                                                              *)
(***************************************************************************)

\* the parts of the module's state a specification does not exercise
RelayIdle ==
    /\ AUTH_SHARED_SECRET = ""
    /\ state_by_symbol = EmptyDict
    /\ blofin_positions_push = NoDict
    /\ now = 0
    /\ nPosts = 0
    /\ resp = NoResp
    /\ last_accepted = EmptyDict
CanonIdle == sym_in = <<>> /\ sym_images = <<>>
StoreIdle ==
    /\ last = <<>> /\ lock = 0 /\ fs = <<>> /\ upd = <<>> /\ persisted = <<>>
    /\ boots = 0 /\ hres = <<>> /\ time_ms = 0
RaceIdle == rd = <<>> /\ key_order = <<>>
DailyIdle ==
    /\ alert_log = <<>> /\ last_log_date = 0 /\ utc_now = 0 /\ wh = <<>>
    /\ summary = <<>>
PageIdle ==
    /\ page_kind = "" /\ dom = <<>> /\ inflight = 0 /\ timer = FALSE /\ done = ""
\* filter_today has not run
NotFiltered == [ran |-> FALSE, out |-> <<>>]
WrapIdle == alerts = <<>> /\ wrap_now = 0 /\ alerts_today = NotFiltered
IndIdle == INDICATORS = <<>> /\ ind_now = 0 /\ ind_resp = <<>>
OpenaiIdle == AUTH_SHARED = "" /\ gpt_calls = <<>> /\ oa_resp = <<>>
SetupIdle ==
    /\ sniper = FALSE /\ tf_pos = 0 /\ tf_step = "" /\ chart_tf = ""
    /\ created = <<>>
ToolIdle == WrapIdle /\ IndIdle /\ OpenaiIdle /\ SetupIdle
SideIdle == DailyIdle /\ PageIdle /\ ToolIdle
CoreIdle ==
    /\ RelayIdle /\ CanonIdle /\ StoreIdle /\ RaceIdle /\ DailyIdle /\ PageIdle

Init ==
    /\ AUTH_SHARED_SECRET \in Secrets
    /\ state_by_symbol = EmptyDict
    /\ blofin_positions_push = NoDict
    /\ now = 0
    /\ nPosts = 0
    /\ resp = NoResp
    /\ last_accepted = EmptyDict
    /\ CanonIdle
    /\ StoreIdle
    /\ RaceIdle
    /\ SideIdle

Next ==
    \/ \E r \in Requests \cup MalformedRequests : tv_ingest(r)
    \/ \E q \in LatestQueries : tv_latest(q.list, q.max_age_secs)
    \/ \E a \in MaxAges : blofin_latest(a)
    \/ Tick

Spec == Init /\ [][Next]_vars

(***************************************************************************)
(* The normalizer on its own: canonical_symbol applied to an input and     *)
(* then to its own result.                                                 *)
(***************************************************************************)
SymbolTokens ==
    { S_BLOFIN \o <<":">>, S_CRYPTOCAP \o <<":">>, <<"l","i","n","k">>,
      <<"T","O","T","A","L">>, S_USDT_P, <<".","D">>, <<"/">>, <<" ">>, <<"\t">> }

RECURSIVE Concat(_)
Concat(toks) == IF toks = <<>> THEN <<>> ELSE Head(toks) \o Concat(Tail(toks))

SymbolInputs ==
    { Concat(ts) : ts \in UNION { [1..n -> SymbolTokens] : n \in 0..MaxTokens } }

InitCanon ==
    /\ sym_in \in SymbolInputs
    /\ sym_images = <<>>
    /\ RelayIdle
    /\ StoreIdle
    /\ RaceIdle
    /\ SideIdle

Normalize ==
    /\ sym_images = <<>>
    /\ sym_images' = <<canonical_symbol(sym_in)>>
    /\ UNCHANGED sym_in
    /\ UNCHANGED <<relayVars, storeVars, raceVars, sideVars>>

Renormalize ==
    /\ Len(sym_images) = 1
    /\ sym_images' = Append(sym_images, canonical_symbol(sym_images[1]))
    /\ UNCHANGED sym_in
    /\ UNCHANGED <<relayVars, storeVars, raceVars, sideVars>>

NextCanon == Normalize \/ Renormalize

SpecCanon == InitCanon /\ [][NextCanon]_vars

(***************************************************************************)
(* _BlofinStore (src/_archive/blofin_hardening.py): the persisted          *)
(* positions snapshot.                                                     *)
(***************************************************************************)
\* TTL_SEC = int(os.getenv("BLOFIN_TTL_SEC", "240"))
TTL_SEC == 240

\* JSON values, tagged with their Python type (a str is a sequence of
\* characters, a float is kept in hundredths)
JNull == [k |-> "NoneType", v |-> None]
JBool(b) == [k |-> "bool", v |-> b]
JInt(n) == [k |-> "int", v |-> n]
JFloat2(h) == [k |-> "float", v |-> h]
JStr(s) == [k |-> "str", v |-> s]
JArr(items) == [k |-> "list", v |-> items]
JObj(fields) == [k |-> "dict", v |-> fields]

\* the outcome of a call: a value, or an exception
Ok(v) == [raised |-> FALSE, v |-> v]
Raised == [raised |-> TRUE, v |-> None]

\* bool(x)
PyTruthy(j) ==
    CASE j.k = "NoneType" -> FALSE
      [] j.k = "bool" -> j.v
      [] j.k \in {"int", "float"} -> j.v # 0
      [] j.k \in {"str", "list"} -> Len(j.v) > 0
      [] j.k = "dict" -> DOMAIN j.v # {}

Digits == <<"0","1","2","3","4","5","6","7","8","9">>
DigitVal(c) == (CHOOSE i \in 1..10 : Digits[i] = c) - 1

RECURSIVE DigitsValue(_, _)
DigitsValue(s, acc) ==
    IF s = <<>> THEN acc ELSE DigitsValue(Tail(s), 10 * acc + DigitVal(Head(s)))

\* int(s) of a str: surrounding whitespace, an optional sign, decimal digits
PyIntOfStr(s) ==
    LET t == Strip(s)
        signed == t # <<>> /\ t[1] \in {"-", "+"}
        body == IF signed THEN Tail(t) ELSE t
    IN IF body = <<>> \/ \E i \in 1..Len(body) : body[i] \notin SeqToSet(Digits)
       THEN Raised
       ELSE Ok(IF signed /\ t[1] = "-" THEN 0 - DigitsValue(body, 0)
               ELSE DigitsValue(body, 0))

\* int(x): ValueError for a str that is no number, TypeError for None, a
\* list or a dict
PyInt(j) ==
    CASE j.k = "int" -> Ok(j.v)
      [] j.k = "bool" -> Ok(IF j.v THEN 1 ELSE 0)
      [] j.k = "float" -> Ok(IF j.v < 0 THEN 0 - ((0 - j.v) \div 100) ELSE j.v \div 100)
      [] j.k = "str" -> PyIntOfStr(j.v)
      [] OTHER -> Raised

\* dict(x): a copy of a dict, {} of an empty list or str, else an exception
\* (the lists of the model hold no key/value pairs)
PyDict(j) ==
    IF j.k = "dict" THEN Ok(j.v)
    ELSE IF j.k \in {"str", "list"} /\ Len(j.v) = 0 THEN Ok(EmptyDict)
    ELSE Raised

\* round(ms / 1000, 2), in hundredths: to the nearest, a tie to the even one
Round2(ms) ==
    LET a == IF ms < 0 THEN 0 - ms ELSE ms
        q == a \div 10
        r == a % 10
        m == IF r > 5 \/ (r = 5 /\ q % 2 = 1) THEN q + 1 ELSE q
    IN IF ms < 0 THEN 0 - m ELSE m

\* self.last = {"fresh": False, "ts": None, "data": None}
DefaultEnvelope == JObj([fresh |-> JBool(FALSE), ts |-> JNull, data |-> JNull])

\* update, lines 29-36: the object built from a payload received at t
BuildObj(payload, t) ==
    LET x == Get(payload, "ts", JNull)
        ts == PyInt(IF PyTruthy(x) THEN x ELSE JInt(t))
    IN IF ts.raised THEN Raised
       ELSE Ok(JObj([fresh |-> JBool(TRUE), ts |-> JInt(ts.v),
                     data |-> JObj(payload), server_received_ms |-> JInt(t)]))

\* latest, lines 46-55, of the snapshot l read at t
LatestOf(l, t) ==
    LET c == PyDict(l) IN
    IF c.raised THEN Raised
    ELSE LET obj == c.v
             ts == Get(obj, "ts", JNull)
             has_data == PyTruthy(Get(obj, "data", JNull))
         IN IF ~PyTruthy(ts)
            THEN Ok(SetKey(SetKey(obj, "fresh", JBool(FALSE)), "age_sec", JNull))
            ELSE LET n == PyInt(ts) IN
                 IF n.raised THEN Raised
                 ELSE Ok(SetKey(SetKey(obj, "fresh",
                                       JBool(has_data /\ (t - n.v) <= TTL_SEC * 1000)),
                                "age_sec", JFloat2(Round2(t - n.v))))

\* the route: status 200 with the envelope, 500 when latest() raises
RouteOf(l, t) ==
    LET r == LatestOf(l, t) IN
    IF r.raised THEN [status |-> 500, body |-> EmptyDict]
    ELSE [status |-> 200, body |-> r.v]

\* the content of a file: none, the whole serialization of a JSON value, or
\* a proper prefix of it (the empty one included)
Absent == [k |-> "absent", of |-> JNull]
json_dump(j) == [k |-> "whole", of |-> j]
Cut(j) == [k |-> "cut", of |-> j]

\* json.load(open(path)): the value of a whole serialization
json_load(c) == IF c.k = "whole" THEN Ok(c.of) ELSE Raised

\* mutant: the serialization is written in place
FsOpenTmp_InPlace(f, obj) == [f EXCEPT !.path = Cut(obj)]

\* open(tmp, "w"): tmp exists and is empty
FsOpenTmp(f, obj) == [f EXCEPT !.tmp = Cut(obj)]

\* json.dump(obj, f) and the close of tmp
FsDump(f, obj) == [f EXCEPT !.tmp = json_dump(obj)]

\* mutant: tmp is never moved over path
FsReplace_Never(f) == f

\* os.replace(tmp, self.path)
FsReplace(f) == [path |-> f.tmp, tmp |-> Absent]

\* __init__, lines 12-17
Construct(f) ==
    LET r == json_load(f.path) IN
    IF r.raised THEN DefaultEnvelope ELSE r.v

\* the instants the store's clock is read at: a start, and the edge of each
\* TTL window after it and the millisecond after that
StoreStart == 1000
StoreInstantAt(i) ==
    IF i = 0 THEN StoreStart
    ELSE StoreStart + TTL_SEC * 1000 * ((i + 1) \div 2) + (1 - (i % 2))
StoreInstants == { StoreInstantAt(i) : i \in 0..MaxInstant }

\* payloads handed to handle_blofin_payload: without ts, with a sender ts,
\* and with a ts that is no number
PAYLOAD_PLAIN == [type |-> JStr(S_BLOFIN_POSITIONS), data |-> JArr(<<JStr(<<"B","T","C">>)>>)]
StorePayloads ==
    { PAYLOAD_PLAIN,
      SetKey(PAYLOAD_PLAIN, "ts", JInt(StoreStart - 1)),
      SetKey(PAYLOAD_PLAIN, "ts", JStr(<<"a","b","c">>)) }

\* what may be at self.path when the process first starts
ExistingFiles ==
    { Absent,
      Cut(DefaultEnvelope),
      json_dump(JArr(<<JInt(1)>>)),
      json_dump(JObj([ts |-> JStr(<<"a","b","c">>), data |-> JObj(PAYLOAD_PLAIN)])),
      json_dump(JObj([ts |-> JStr(<<" ","9","9","9">>), data |-> JObj(PAYLOAD_PLAIN)])),
      json_dump(JObj([data |-> JObj(PAYLOAD_PLAIN)])) }

UpdateCalls == 1..MaxUpdates
NoCall == [pc |-> "idle", obj |-> JNull, wrote |-> FALSE]
NoHres == [status |-> 0, body |-> EmptyDict]
InFlight == {"built", "locked", "opened", "dumped", "unlock"}

\* update, lines 29-36: the call starts, stamps the payload and builds obj
update_build(t, payload) ==
    /\ upd[t].pc = "idle"
    /\ \A u \in UpdateCalls : u < t => upd[u].pc # "idle"
    /\ LET o == BuildObj(payload, time_ms) IN
       upd' = [upd EXCEPT ![t] =
                  IF o.raised THEN [NoCall EXCEPT !.pc = "raised"]
                  ELSE [NoCall EXCEPT !.pc = "built", !.obj = o.v]]
    /\ UNCHANGED <<last, lock, fs, persisted, boots, hres, time_ms>>
    /\ UNCHANGED <<relayVars, canonVars, raceVars, sideVars>>

\* mutant: the snapshot in memory is left as it was
SetLast_Keep(old, obj) == old

\* line 38: self.last = obj
SetLast(old, obj) == obj

\* mutant: the lock excludes nobody
LockFree_Always(l) == TRUE

\* with self.lock: the lock can be taken when no call holds it
LockFree(l) == l = 0

\* lines 37-38: with self.lock: self.last = obj
update_lock(t) ==
    /\ upd[t].pc = "built"
    /\ LockFree(lock)
    /\ lock' = t
    /\ last' = SetLast(last, upd[t].obj)
    /\ upd' = [upd EXCEPT ![t].pc = "locked"]
    /\ hres' = NoHres
    /\ UNCHANGED <<fs, persisted, boots, time_ms>>
    /\ UNCHANGED <<relayVars, canonVars, raceVars, sideVars>>

\* _write_atomic, lines 20-24: makedirs and open(tmp, "w"), or their failure
write_open(t, ok) ==
    /\ upd[t].pc = "locked"
    /\ fs' = IF ok THEN FsOpenTmp(fs, upd[t].obj) ELSE fs
    /\ upd' = [upd EXCEPT ![t].pc = IF ok THEN "opened" ELSE "unlock"]
    /\ UNCHANGED <<last, lock, persisted, boots, hres, time_ms>>
    /\ UNCHANGED <<relayVars, canonVars, raceVars, sideVars>>

\* line 25: json.dump into tmp, or its failure part of the way
write_dump(t, ok) ==
    /\ upd[t].pc = "opened"
    /\ fs' = IF ok THEN FsDump(fs, upd[t].obj) ELSE fs
    /\ upd' = [upd EXCEPT ![t].pc = IF ok THEN "dumped" ELSE "unlock"]
    /\ UNCHANGED <<last, lock, persisted, boots, hres, time_ms>>
    /\ UNCHANGED <<relayVars, canonVars, raceVars, sideVars>>

\* line 26: os.replace(tmp, self.path), or its failure
write_replace(t, ok) ==
    /\ upd[t].pc = "dumped"
    /\ fs' = IF ok THEN FsReplace(fs) ELSE fs
    /\ persisted' = IF ok THEN upd[t].obj ELSE persisted
    /\ upd' = [upd EXCEPT ![t].pc = "unlock", ![t].wrote = ok]
    /\ UNCHANGED <<last, lock, boots, hres, time_ms>>
    /\ UNCHANGED <<relayVars, canonVars, raceVars, sideVars>>

\* lines 41-43: the exception, if any, is swallowed; the lock is released
\* and update returns
update_return(t) ==
    /\ upd[t].pc = "unlock"
    /\ lock' = 0
    /\ upd' = [upd EXCEPT ![t].pc = "returned", ![t].obj = JNull]
    /\ UNCHANGED <<last, fs, persisted, boots, hres, time_ms>>
    /\ UNCHANGED <<relayVars, canonVars, raceVars, sideVars>>

\* GET /blofin/latest, lines 60-70: latest() copies self.last under the lock
store_blofin_latest ==
    /\ lock = 0
    /\ hres' = RouteOf(last, time_ms)
    /\ UNCHANGED <<last, lock, fs, upd, persisted, boots, time_ms>>
    /\ UNCHANGED <<relayVars, canonVars, raceVars, sideVars>>

\* the process is killed and started again: the calls in flight are gone,
\* the files stay, _store = _BlofinStore(DATA_PATH) runs
restart ==
    /\ boots < MaxBoots
    /\ boots' = boots + 1
    /\ last' = Construct(fs)
    /\ lock' = 0
    /\ upd' = [t \in UpdateCalls |->
                  IF upd[t].pc \in InFlight THEN [NoCall EXCEPT !.pc = "killed"]
                  ELSE upd[t]]
    /\ hres' = NoHres
    /\ UNCHANGED <<fs, persisted, time_ms>>
    /\ UNCHANGED <<relayVars, canonVars, raceVars, sideVars>>

StoreTick ==
    /\ \E t \in StoreInstants : t > time_ms /\ time_ms' = t
    /\ hres' = NoHres
    /\ UNCHANGED <<last, lock, fs, upd, persisted, boots>>
    /\ UNCHANGED <<relayVars, canonVars, raceVars, sideVars>>

StoreStarted(file) ==
    /\ fs = [path |-> file, tmp |-> Absent]
    /\ last = Construct(fs)
    /\ lock = 0
    /\ upd = [t \in UpdateCalls |-> NoCall]
    /\ persisted = DefaultEnvelope
    /\ boots = 0
    /\ hres = NoHres
    /\ time_ms = StoreStart
    /\ RelayIdle
    /\ CanonIdle
    /\ RaceIdle
    /\ SideIdle

\* the store starts on a path that holds no file
InitStore == StoreStarted(Absent)

\* the store starts on a path that may hold a file already
InitStoreExisting == \E file \in ExistingFiles : StoreStarted(file)

NextStore ==
    \/ \E t \in UpdateCalls, p \in StorePayloads : update_build(t, p)
    \/ \E t \in UpdateCalls : update_lock(t)
    \/ \E t \in UpdateCalls, ok \in BOOLEAN : write_open(t, ok)
    \/ \E t \in UpdateCalls, ok \in BOOLEAN : write_dump(t, ok)
    \/ \E t \in UpdateCalls, ok \in BOOLEAN : write_replace(t, ok)
    \/ \E t \in UpdateCalls : update_return(t)
    \/ store_blofin_latest
    \/ restart
    \/ StoreTick

SpecStore == InitStore /\ [][NextStore]_vars
SpecStoreExisting == InitStoreExisting /\ [][NextStore]_vars

(***************************************************************************)
(* GET /snap: the buckets of the named lists and the positions envelope.   *)
(* The response is a dict keyed by name; a value is the integer time or a  *)
(* dict, tagged with its Python type.                                      *)
(***************************************************************************)
SnapQueries ==
    { [lists |-> l, fresh_only |-> f, max_age_secs |-> a] :
        l \in SnapLists, f \in BOOLEAN, a \in MaxAges }

\* bucket["items"] = [it for it in bucket["items"] if it.get("is_fresh")]
\* bucket["count"] = len(bucket["items"])
FreshOnly(bucket) ==
    LET items == SelectSeq(bucket.items, LAMBDA it : Get(it, "is_fresh", FALSE))
    IN [count |-> Len(items), items |-> items]

\* the for loop of snap: out[name] = bucket, name after name
RECURSIVE SnapFill(_, _, _, _, _)
SnapFill(out, names, store, t, q) ==
    IF names = <<>> THEN out
    ELSE LET bucket == LatestBody(store, t, Head(names), q.max_age_secs)
             kept == IF q.fresh_only THEN FreshOnly(bucket) ELSE bucket
         IN SnapFill(SetKey(out, Head(names), JObj(kept)), Tail(names), store, t, q)

SnapBody(store, push, t, q) ==
    LET out == SnapFill((S_ts :> JInt(t)), SnapNamesOf(q.lists), store, t, q)
    IN SetKey(out, S_port, JObj(BlofinBody(push, t, 900)))

snap(q) ==
    /\ resp' = [route |-> "GET /snap", status |-> 200, req |-> q,
                body |-> SnapBody(state_by_symbol, blofin_positions_push, now, q)]
    /\ UNCHANGED <<AUTH_SHARED_SECRET, state_by_symbol,
                   blofin_positions_push, now, nPosts, last_accepted>>
    /\ UNCHANGED nonRelayVars

\* the relay with all of its read endpoints
NextSnap ==
    \/ \E r \in Requests \cup MalformedRequests : tv_ingest(r)
    \/ \E q \in LatestQueries : tv_latest(q.list, q.max_age_secs)
    \/ \E a \in MaxAges : blofin_latest(a)
    \/ \E q \in SnapQueries : snap(q)
    \/ Tick

SpecSnap == Init /\ [][NextSnap]_vars

(***************************************************************************)
(* GET /tv/latest on a worker thread (tv_latest is a plain def) while the  *)
(* event loop runs POST /tv (tv_ingest is an async def): the read walks    *)
(* state_by_symbol.items() one entry at a time.                            *)
(***************************************************************************)
NoRead == [pc |-> "idle"]

\* a dict keeps its keys in insertion order
KeyOrderAfter(order, store) ==
    LET new == DOMAIN store \ SeqToSet(order) IN
    IF new = {} THEN order ELSE Append(order, CHOOSE k \in new : TRUE)

\* lines 285-288: the filter and the clock are read, the iterator is made
read_begin(q) ==
    /\ rd.pc = "idle"
    /\ rd' = [pc |-> "iter", req |-> q, at |-> now,
              used |-> Len(key_order), pos |-> 0, items |-> {},
              snaps |-> {state_by_symbol}]
    /\ resp' = NoResp
    /\ UNCHANGED <<AUTH_SHARED_SECRET, state_by_symbol, blofin_positions_push,
                   now, nPosts, last_accepted, key_order>>
    /\ UNCHANGED <<canonVars, storeVars, sideVars>>

\* lines 289-297, one turn of the for loop: the iterator raises RuntimeError
\* when the dict changed size, ends after the last entry, and else yields
\* the next entry with the value the dict holds for it now
read_next ==
    /\ rd.pc = "iter"
    /\ IF Len(key_order) # rd.used
       THEN /\ resp' = [route |-> "GET /tv/latest", status |-> 500, req |-> rd.req,
                        body |-> EmptyDict, at |-> rd.at, snaps |-> rd.snaps]
            /\ rd' = NoRead
       ELSE IF rd.pos >= Len(key_order)
       THEN /\ resp' = [route |-> "GET /tv/latest", status |-> 200, req |-> rd.req,
                        body |-> [count |-> Len(SortBySymbol(rd.items)),
                                  items |-> SortBySymbol(rd.items)],
                        at |-> rd.at, snaps |-> rd.snaps]
            /\ rd' = NoRead
       ELSE LET sym == key_order[rd.pos + 1]
                item == state_by_symbol[sym]
                sel == FilterTable[rd.req.list]
                d == SetKey(item, "is_fresh",
                            IsFresh(rd.at, Get(item, "server_received_ms", rd.at),
                                    rd.req.max_age_secs))
            IN /\ rd' = [rd EXCEPT !.pos = rd.pos + 1,
                                   !.items = IF sel.is_none \/ sym \in sel.set
                                             THEN rd.items \cup {d} ELSE rd.items]
               /\ resp' = resp
    /\ UNCHANGED <<AUTH_SHARED_SECRET, state_by_symbol, blofin_positions_push,
                   now, nPosts, last_accepted, key_order>>
    /\ UNCHANGED <<canonVars, storeVars, sideVars>>

\* POST /tv handled on the event loop, between two steps of the read
race_ingest(r) ==
    /\ tv_ingest_body(r)
    /\ key_order' = KeyOrderAfter(key_order, state_by_symbol')
    /\ rd' = IF rd.pc = "iter"
             THEN [rd EXCEPT !.snaps = rd.snaps \cup {state_by_symbol'}]
             ELSE rd
    /\ UNCHANGED <<canonVars, storeVars, sideVars>>

RaceTick ==
    /\ \E t \in Instants : t > now /\ now' = t
    /\ UNCHANGED <<AUTH_SHARED_SECRET, state_by_symbol, blofin_positions_push,
                   nPosts, resp, last_accepted>>
    /\ UNCHANGED <<canonVars, storeVars, raceVars, sideVars>>

InitRace ==
    /\ AUTH_SHARED_SECRET = ""
    /\ state_by_symbol = EmptyDict
    /\ blofin_positions_push = NoDict
    /\ now = 0
    /\ nPosts = 0
    /\ resp = NoResp
    /\ last_accepted = EmptyDict
    /\ rd = NoRead
    /\ key_order = <<>>
    /\ CanonIdle
    /\ StoreIdle
    /\ SideIdle

NextRace ==
    \/ \E r \in Requests : race_ingest(r)
    \/ \E q \in LatestQueries : read_begin(q)
    \/ read_next
    \/ RaceTick

SpecRace == InitRace /\ [][NextRace]_vars

(***************************************************************************)
(* The daily relay (src/relay_daily.py): tradingview_webhook stamps an     *)
(* alert, forwards it over the network, and only then rolls the log over   *)
(* and appends the alert; /daily-summary counts the log.                   *)
(***************************************************************************)
SECONDS_PER_DAY == 86400

\* last_log_date = None
NoDate == -1

\* datetime.now(timezone.utc).date(): the day number of the instant t
DateOf(t) == t \div SECONDS_PER_DAY

\* datetime.isoformat(): the date and the time of day, as written out
IsoFormat(t) == [date |-> t \div SECONDS_PER_DAY, time |-> t % SECONDS_PER_DAY]

\* the instants the daily relay reads its clock at: the last second of a
\* day and the first second of the next (86399, 86400, 172799, 172800, ...)
DailyInstantAt(i) ==
    IF i % 2 = 0 THEN SECONDS_PER_DAY * (i \div 2 + 1) - 1
    ELSE SECONDS_PER_DAY * ((i + 1) \div 2)
DailyInstants == { DailyInstantAt(i) : i \in 0..MaxInstant }

\* alert messages: one of the indicator, and one that is no JSON and is
\* wrapped as {"raw": body}
DailyAlerts ==
    { [ticker |-> "BTCUSDT", signal |-> "long"],
      [ticker |-> "ETHUSDT", signal |-> "flat"],
      [raw |-> "hello"] }

WebhookCalls == 1..MaxAlerts
NoWebhook == [pc |-> "idle", alert_data |-> EmptyDict, current_date |-> NoDate]
NoSummary == [pc |-> "none", current_date |-> NoDate, counts |-> EmptyDict]

\* reset_alert_log_if_new_day, line 55: the test, the clock being at t
IsNewDay(date, t) == date = NoDate \/ DateOf(t) # date

\* lines 76-96: the body is parsed, snapshot_url and ts are attached
webhook_stamp(t, alert) ==
    /\ wh[t].pc = "idle"
    /\ \A u \in WebhookCalls : u < t => wh[u].pc # "idle"
    /\ wh' = [wh EXCEPT ![t] =
                 [pc |-> "forwarding",
                  alert_data |-> SetKey(SetKey(alert, "snapshot_url", None),
                                        "ts", IsoFormat(utc_now)),
                  current_date |-> NoDate]]
    /\ UNCHANGED <<alert_log, last_log_date, utc_now, summary>>
    /\ UNCHANGED <<relayVars, canonVars, storeVars, raceVars, pageVars, toolVars>>

\* lines 98-101 and 54-55: forward_to_chatgpt has returned, with or without
\* an error; reset_alert_log_if_new_day reads the clock and tests the date
webhook_check(t) ==
    /\ wh[t].pc = "forwarding"
    /\ wh' = [wh EXCEPT ![t].pc = IF IsNewDay(last_log_date, utc_now)
                                  THEN "clearing" ELSE "appending",
                        ![t].current_date = DateOf(utc_now)]
    /\ UNCHANGED <<alert_log, last_log_date, utc_now, summary>>
    /\ UNCHANGED <<relayVars, canonVars, storeVars, raceVars, pageVars, toolVars>>

\* lines 56-57: the log is replaced by an empty one and the date is set
webhook_clear(t) ==
    /\ wh[t].pc = "clearing"
    /\ alert_log' = <<>>
    /\ last_log_date' = wh[t].current_date
    /\ wh' = [wh EXCEPT ![t].pc = "appending"]
    /\ UNCHANGED <<utc_now, summary>>
    /\ UNCHANGED <<relayVars, canonVars, storeVars, raceVars, pageVars, toolVars>>

\* the entry of the log made of an alert
EntryOf(alert_data) ==
    [ticker |-> Get(alert_data, "ticker", None),
     signal |-> Get(alert_data, "signal", None),
     ts |-> alert_data.ts]

\* lines 103-108: the alert is appended to the log
webhook_append(t) ==
    /\ wh[t].pc = "appending"
    /\ alert_log' = Append(alert_log, EntryOf(wh[t].alert_data))
    /\ wh' = [wh EXCEPT ![t].pc = "done"]
    /\ UNCHANGED <<last_log_date, utc_now, summary>>
    /\ UNCHANGED <<relayVars, canonVars, storeVars, raceVars, pageVars, toolVars>>

\* the alerts of the log that name a ticker, counted per ticker
CountsOf(log) ==
    LET tickers == { log[i].ticker : i \in 1..Len(log) } \ {None}
    IN [k \in tickers |-> Cardinality({ i \in 1..Len(log) : log[i].ticker = k })]

\* GET /daily-summary, lines 133 and 54-55: the date is tested
summary_check ==
    /\ summary.pc \in {"none", "done"}
    /\ summary' = [pc |-> IF IsNewDay(last_log_date, utc_now)
                          THEN "clearing" ELSE "counting",
                   current_date |-> DateOf(utc_now), counts |-> EmptyDict]
    /\ UNCHANGED <<alert_log, last_log_date, utc_now, wh>>
    /\ UNCHANGED <<relayVars, canonVars, storeVars, raceVars, pageVars, toolVars>>

\* GET /daily-summary, lines 56-57
summary_clear ==
    /\ summary.pc = "clearing"
    /\ alert_log' = <<>>
    /\ last_log_date' = summary.current_date
    /\ summary' = [summary EXCEPT !.pc = "counting"]
    /\ UNCHANGED <<utc_now, wh>>
    /\ UNCHANGED <<relayVars, canonVars, storeVars, raceVars, pageVars, toolVars>>

\* GET /daily-summary, lines 134-139: the log is counted per ticker
summary_count ==
    /\ summary.pc = "counting"
    /\ summary' = [summary EXCEPT !.pc = "done", !.counts = CountsOf(alert_log)]
    /\ UNCHANGED <<alert_log, last_log_date, utc_now, wh>>
    /\ UNCHANGED <<relayVars, canonVars, storeVars, raceVars, pageVars, toolVars>>

\* time passes; an answer given is kept only until then
DailyTick ==
    /\ \E t \in DailyInstants : t > utc_now /\ utc_now' = t
    /\ summary' = IF summary.pc = "done" THEN NoSummary ELSE summary
    /\ UNCHANGED <<alert_log, last_log_date, wh>>
    /\ UNCHANGED <<relayVars, canonVars, storeVars, raceVars, pageVars, toolVars>>

InitDaily ==
    /\ alert_log = <<>>
    /\ last_log_date = NoDate
    /\ utc_now = DailyInstantAt(0)
    /\ wh = [t \in WebhookCalls |-> NoWebhook]
    /\ summary = NoSummary
    /\ RelayIdle
    /\ CanonIdle
    /\ StoreIdle
    /\ RaceIdle
    /\ PageIdle
    /\ ToolIdle

NextDaily ==
    \/ \E t \in WebhookCalls, a \in DailyAlerts : webhook_stamp(t, a)
    \/ \E t \in WebhookCalls : webhook_check(t)
    \/ \E t \in WebhookCalls : webhook_clear(t)
    \/ \E t \in WebhookCalls : webhook_append(t)
    \/ summary_check
    \/ summary_clear
    \/ summary_count
    \/ DailyTick

SpecDaily == InitDaily /\ [][NextDaily]_vars

(***************************************************************************)
(* The /port2.html page in a browser (src/app.py and                       *)
(* src/_archive/blofin_hardening.py): load() runs once and then on every   *)
(* tick of setInterval; it fetches /blofin/latest, parses the JSON and     *)
(* writes the elements of the page, or its catch block writes the error.   *)
(* A load() runs to its end once the response is there; loads that overlap *)
(* finish in any order.                                                    *)
(***************************************************************************)
PageKinds == {"app", "hardening"}

\* o.data.data.data of a response: missing, an array of positions (a
\* position may be null), or a number
P_MISSING == [k |-> "missing", items |-> <<>>]
P_NUMBER == [k |-> "number", items |-> <<>>]
P_ARRAY(items) == [k |-> "array", items |-> items]
ROW_BTC == [is_null |-> FALSE, instId |-> "BTC-USDT"]
ROW_NULL == [is_null |-> TRUE, instId |-> ""]

\* what a fetch of /blofin/latest can end in: the request fails, the body
\* is no JSON, or it is JSON: null, or an envelope
FetchOutcomes ==
    { [kind |-> "network_error", fresh |-> FALSE, ts |-> None, positions |-> P_MISSING],
      [kind |-> "not_json", fresh |-> FALSE, ts |-> None, positions |-> P_MISSING],
      [kind |-> "json_null", fresh |-> FALSE, ts |-> None, positions |-> P_MISSING],
      [kind |-> "json", fresh |-> TRUE, ts |-> "1000", positions |-> P_ARRAY(<<ROW_BTC>>)],
      [kind |-> "json", fresh |-> FALSE, ts |-> None, positions |-> P_MISSING],
      [kind |-> "json", fresh |-> TRUE, ts |-> "1000", positions |-> P_NUMBER],
      [kind |-> "json", fresh |-> TRUE, ts |-> "1000",
       positions |-> P_ARRAY(<<ROW_BTC, ROW_NULL>>)] }

\* the elements as the HTML has them before the script runs
InitialDom(kind) ==
    IF kind = "app"
    THEN [fresh |-> [text |-> "loading", class |-> "pill"],
          rows |-> [k |-> "waiting", items |-> <<>>],
          meta |-> ""]
    ELSE [statusPill |-> [text |-> "STALE", class |-> "pill stale"],
          tb |-> <<>>, stamp |-> "", err |-> ""]

\* the instIds of the rows written before a null position makes the loop
\* throw
RECURSIVE RowsUntilNull(_)
RowsUntilNull(items) ==
    IF items = <<>> \/ Head(items).is_null THEN <<>>
    ELSE <<Head(items).instId>> \o RowsUntilNull(Tail(items))

HasNull(items) == \E i \in 1..Len(items) : items[i].is_null

\* the try block of load() in app.py, lines 607-640: the elements after
\* it, and whether it threw
TryApp(d, o) ==
    IF o.kind # "json" THEN [dom |-> d, threw |-> TRUE]
    ELSE LET items == IF o.positions.k = "array" THEN o.positions.items ELSE <<>>
             d1 == [d EXCEPT !.fresh =
                        IF o.fresh THEN [text |-> "fresh", class |-> "pill fresh"]
                        ELSE [text |-> "stale", class |-> "pill stale"]]
         IN IF HasNull(items) THEN [dom |-> d1, threw |-> TRUE]
            ELSE [dom |-> [d1 EXCEPT
                              !.rows = IF items = <<>>
                                       THEN [k |-> "none", items |-> <<>>]
                                       ELSE [k |-> "rows", items |-> RowsUntilNull(items)],
                              !.meta = IF o.ts = None THEN "Updated: -" ELSE "Updated: " \o o.ts],
                  threw |-> FALSE]

\* the try block of load() in blofin_hardening.py, lines 108-129
TryHardening(d, o) ==
    IF o.kind \in {"network_error", "not_json"} THEN [dom |-> d, threw |-> TRUE]
    ELSE LET d0 == [d EXCEPT !.err = ""] IN
         IF o.kind = "json_null" THEN [dom |-> d0, threw |-> TRUE]
         ELSE LET d1 == [d0 EXCEPT
                            !.statusPill =
                                IF o.fresh THEN [text |-> "FRESH", class |-> "pill fresh"]
                                ELSE [text |-> "STALE", class |-> "pill stale"],
                            !.stamp = IF o.ts = None THEN "server ts: -"
                                      ELSE "server ts: " \o o.ts]
              IN IF o.positions.k = "number"
                 THEN [dom |-> [d1 EXCEPT !.tb = <<>>], threw |-> TRUE]
                 ELSE [dom |-> [d1 EXCEPT !.tb = RowsUntilNull(o.positions.items)],
                       threw |-> HasNull(o.positions.items)]

\* mutant: the catch block writes the message and leaves the pill
OnCatch_MessageOnly(kind, d) ==
    IF kind = "app"
    THEN [d EXCEPT !.rows = [k |-> "error", items |-> <<>>]]
    ELSE [d EXCEPT !.err = "Fetch failed. Will retry"]

\* the catch block of load(): app.py lines 641-644, blofin_hardening.py
\* lines 130-133
OnCatch(kind, d) ==
    IF kind = "app"
    THEN [d EXCEPT !.rows = [k |-> "error", items |-> <<>>],
                   !.fresh = [text |-> "error", class |-> "pill stale"]]
    ELSE [d EXCEPT !.statusPill = [text |-> "ERROR", class |-> "pill warn"],
                   !.err = "Fetch failed. Will retry"]

\* one load() from its response to its end
Load(kind, d, o) ==
    LET r == IF kind = "app" THEN TryApp(d, o) ELSE TryHardening(d, o)
    IN IF r.threw THEN OnCatch(kind, r.dom) ELSE r.dom

\* the page shows an error: the error pill and the error message
ErrorState(kind, d) ==
    IF kind = "app"
    THEN d.fresh.text = "error" /\ d.rows.k = "error"
    ELSE d.statusPill.text = "ERROR" /\ d.err # ""

\* the page shows data: a freshness pill, and no error message
RenderedState(kind, d) ==
    IF kind = "app"
    THEN d.fresh.text \in {"fresh", "stale"} /\ d.rows.k \in {"rows", "none"}
    ELSE d.statusPill.text \in {"FRESH", "STALE"} /\ d.err = ""

NoDone ==
    [outcome |-> [kind |-> "none", fresh |-> FALSE, ts |-> None, positions |-> P_MISSING],
     after_error |-> FALSE]

\* load() is called: by the script once, then by the interval
load_start ==
    /\ timer
    /\ inflight < MaxInFlight
    /\ inflight' = inflight + 1
    /\ done' = NoDone
    /\ UNCHANGED <<page_kind, dom, timer>>
    /\ UNCHANGED <<relayVars, canonVars, storeVars, raceVars, dailyVars, toolVars>>

\* the response of a load() arrives and the load runs to its end
load_finish(o) ==
    /\ inflight > 0
    /\ inflight' = inflight - 1
    /\ dom' = Load(page_kind, dom, o)
    /\ done' = [outcome |-> o, after_error |-> ErrorState(page_kind, dom)]
    /\ UNCHANGED <<page_kind, timer>>
    /\ UNCHANGED <<relayVars, canonVars, storeVars, raceVars, dailyVars, toolVars>>

\* the script has run: load() is called once and the interval is set
InitPage ==
    /\ page_kind \in PageKinds
    /\ dom = InitialDom(page_kind)
    /\ inflight = 1
    /\ timer = TRUE
    /\ done = NoDone
    /\ RelayIdle
    /\ CanonIdle
    /\ StoreIdle
    /\ RaceIdle
    /\ DailyIdle
    /\ ToolIdle

NextPage ==
    \/ load_start
    \/ \E o \in FetchOutcomes : load_finish(o)

SpecPage == InitPage /\ [][NextPage]_vars

(***************************************************************************)
(* The daily wrap-up script (src/daily_wrapup.py): filter_today keeps the  *)
(* alerts whose parsed timestamp has today's date.  A ts is absent, a      *)
(* string or a number; a string is an ISO text, with the date, the time of *)
(* day and the UTC offset it spells, or some other text.                   *)
(***************************************************************************)
TsAbsent == [k |-> "NoneType", iso |-> FALSE, date |-> 0, secs |-> 0, off |-> 0, ms |-> 0]
TsIso(date, secs, off) ==
    [k |-> "str", iso |-> TRUE, date |-> date, secs |-> secs, off |-> off, ms |-> 0]
TsText == [k |-> "str", iso |-> FALSE, date |-> 0, secs |-> 0, off |-> 0, ms |-> 0]
TsMs(ms) == [k |-> "int", iso |-> FALSE, date |-> 0, secs |-> 0, off |-> 0, ms |-> ms]

\* the alerts of a log: on day 1, on day 0, without ts, with a ts that is no
\* time, with a ts in milliseconds, and late on day 0 as written at UTC-5,
\* which is day 1 in UTC
WrapAlerts ==
    { [id |-> "day1", ts |-> TsIso(1, 10, 0)],
      [id |-> "day0", ts |-> TsIso(0, SECONDS_PER_DAY - 1, 0)],
      [id |-> "no ts"],
      [id |-> "text", ts |-> TsText],
      [id |-> "ms", ts |-> TsMs(SECONDS_PER_DAY * 1000)],
      [id |-> "offset", ts |-> TsIso(0, 20 * 3600, 0 - 5)] }

RECURSIVE SeqsUpTo(_, _)
SeqsUpTo(S, n) ==
    IF n = 0 THEN { <<>> }
    ELSE SeqsUpTo(S, n - 1)
         \cup { Append(q, x) : q \in { r \in SeqsUpTo(S, n - 1) : Len(r) = n - 1 }, x \in S }

\* parse_timestamp(ts).date(), the clock being at t: the date of the
\* datetime parsed, in that datetime's own zone, or the date of now
ParsedDate(ts, t) ==
    IF ts.k = "int" THEN DateOf(ts.ms \div 1000)
    ELSE IF ts.k = "str" /\ ts.iso THEN ts.date
    ELSE DateOf(t)

\* filter_today(alerts), the clock being at t
filter_today(log, t) ==
    SelectSeq(log, LAMBDA a : ParsedDate(Get(a, "ts", TsAbsent), t) = DateOf(t))

\* main, lines 272-273: alerts_today = filter_today(alerts)
filter_today_call ==
    /\ ~alerts_today.ran
    /\ alerts_today' = [ran |-> TRUE, out |-> filter_today(alerts, wrap_now)]
    /\ UNCHANGED <<alerts, wrap_now>>
    /\ UNCHANGED <<coreVars, indVars, openaiVars, setupVars>>

InitWrap ==
    /\ alerts \in SeqsUpTo(WrapAlerts, MaxLogLen)
    /\ wrap_now \in DailyInstants
    /\ alerts_today = NotFiltered
    /\ CoreIdle
    /\ IndIdle
    /\ OpenaiIdle
    /\ SetupIdle

NextWrap == filter_today_call

SpecWrap == InitWrap /\ [][NextWrap]_vars

(***************************************************************************)
(* The indicator endpoint (src/app.py, POST /tv_indicators).               *)
(***************************************************************************)
SYM_btc == <<"b", "t", "c">>
SYM_BTC == <<"B", "T", "C">>
SYM_ETH == <<"E", "T", "H">>
SYM_SOL == <<"S", "O", "L">>

\* the items of a data list: two spellings of one symbol, an item keyed by
\* "symbol", one without a symbol, one whose ema12d is no number, and one
\* that is no object
IndItems ==
    { JObj([sym |-> JStr(SYM_btc), ema12d |-> JInt(1), qvwap |-> JInt(2), ts |-> JInt(5)]),
      JObj([sym |-> JStr(SYM_BTC), ema12d |-> JInt(3)]),
      JObj([symbol |-> JStr(SYM_ETH), qvwap |-> JFloat2(150)]),
      JObj([ema12d |-> JInt(1)]),
      JObj([sym |-> JStr(SYM_SOL), ema12d |-> JStr(<<"a", "b", "c">>)]),
      JStr(<<"x">>) }

\* the bodies that parse: null, an object whose data is null, and objects
\* with a data list
IndPayloads ==
    {JNull, JObj([data |-> JNull])}
        \cup { JObj([data |-> JArr(q)]) : q \in SeqsUpTo(IndItems, MaxItems) }

\* a request: the token of the query string, whether req.json() parses the
\* body, and what it gives then
IndRequests ==
    [token : {"", "s3cret"}, parses : {FALSE}, json : {JNull}]
        \cup [token : {"", "s3cret"}, parses : {TRUE}, json : IndPayloads]

\* float(x) (the strings of the model carry no fraction and no exponent)
PyFloat(j) ==
    CASE j.k = "float" -> Ok(j)
      [] j.k = "int" -> Ok(JFloat2(100 * j.v))
      [] j.k = "bool" -> Ok(JFloat2(IF j.v THEN 100 ELSE 0))
      [] j.k = "str" ->
            LET n == PyIntOfStr(j.v)
            IN IF n.raised THEN Raised ELSE Ok(JFloat2(100 * n.v))
      [] OTHER -> Raised

\* float(x) if x is not None else None
FloatOrNone(j) == IF j.k = "NoneType" THEN Ok(JNull) ELSE PyFloat(j)

\* lines 786-797, the loop over items from the state ind on, the clock
\* having been read as t: the state it leaves, the keys it assigned, and
\* whether it ended in an exception
RECURSIVE StoreItems(_, _, _, _)
StoreItems(ind, wrote, items, t) ==
    IF items = <<>> THEN [ind |-> ind, wrote |-> wrote, raised |-> FALSE]
    ELSE
        LET it == Head(items)
            failed == [ind |-> ind, wrote |-> wrote, raised |-> TRUE]
        IN IF it.k # "dict" THEN failed
           ELSE
             LET a == Get(it.v, "sym", JNull)
                 b == Get(it.v, "symbol", JNull)
                 s == IF PyTruthy(a) THEN a
                      ELSE IF PyTruthy(b) THEN b ELSE JStr(<<>>)
             IN IF s.k # "str" THEN failed
                ELSE IF Upper(s.v) = <<>> THEN StoreItems(ind, wrote, Tail(items), t)
                ELSE
                  LET sym == Upper(s.v)
                      e == FloatOrNone(Get(it.v, "ema12d", JNull))
                      q == FloatOrNone(Get(it.v, "qvwap", JNull))
                      x == Get(it.v, "ts", JNull)
                      ts == PyInt(IF PyTruthy(x) THEN x ELSE JInt(t))
                  IN IF e.raised \/ q.raised \/ ts.raised THEN failed
                     ELSE StoreItems(
                            [ts |-> t,
                             data |-> StoreState(ind.data, sym,
                                         [ema12d |-> e.v, qvwap |-> q.v, ts |-> ts.v])],
                            wrote \cup {sym}, Tail(items), t)

\* the response of the endpoint: the status, the stored count of a 200, and
\* the keys of INDICATORS["data"] the request assigned
IndResp(status, stored, wrote) == [status |-> status, stored |-> stored, wrote |-> wrote]
NoIndResp == IndResp(0, 0, {})

\* POST /tv_indicators?token=..., lines 771-798
tv_indicators(q) ==
    /\ IF AUTH_SHARED_SECRET = "" \/ q.token # AUTH_SHARED_SECRET
       THEN ind_resp' = IndResp(403, 0, {}) /\ UNCHANGED INDICATORS
       ELSE IF ~q.parses
       THEN ind_resp' = IndResp(400, 0, {}) /\ UNCHANGED INDICATORS
       ELSE
         LET payload == IF PyTruthy(q.json) THEN q.json ELSE JObj(EmptyDict)
             items == IF payload.k = "dict"
                      THEN Get(payload.v, "data", JArr(<<>>)) ELSE JNull
         IN IF items.k # "list"
            THEN ind_resp' = IndResp(500, 0, {}) /\ UNCHANGED INDICATORS
            ELSE
              LET out == StoreItems(INDICATORS, {}, items.v, ind_now)
              IN /\ INDICATORS' = out.ind
                 /\ ind_resp' = IF out.raised THEN IndResp(500, 0, out.wrote)
                                 ELSE IndResp(200, Len(items.v), out.wrote)
    /\ UNCHANGED ind_now
    /\ UNCHANGED <<AUTH_SHARED_SECRET, state_by_symbol, blofin_positions_push,
                   now, nPosts, resp, last_accepted>>
    /\ UNCHANGED <<canonVars, storeVars, raceVars, dailyVars, pageVars>>
    /\ UNCHANGED <<wrapVars, openaiVars, setupVars>>

\* _now_ms() grows between requests
IndTick ==
    /\ ind_now < MaxIndClock
    /\ ind_now' = ind_now + 1
    /\ ind_resp' = NoIndResp
    /\ UNCHANGED INDICATORS
    /\ UNCHANGED <<coreVars, wrapVars, openaiVars, setupVars>>

InitInd ==
    /\ AUTH_SHARED_SECRET \in Secrets
    /\ state_by_symbol = EmptyDict
    /\ blofin_positions_push = NoDict
    /\ now = 0
    /\ nPosts = 0
    /\ resp = NoResp
    /\ last_accepted = EmptyDict
    /\ CanonIdle /\ StoreIdle /\ RaceIdle /\ DailyIdle /\ PageIdle
    /\ WrapIdle /\ OpenaiIdle /\ SetupIdle
    /\ INDICATORS = [ts |-> 0, data |-> EmptyDict]
    /\ ind_now = 1
    /\ ind_resp = NoIndResp

NextInd ==
    \/ \E q \in IndRequests : tv_indicators(q)
    \/ IndTick

SpecInd == InitInd /\ [][NextInd]_vars

(***************************************************************************)
(* The OpenAI relay (src/_archive/relay_openai.py): /tv and /scan-now      *)
(* normalise an alert body and hand it to call_gpt5.                       *)
(***************************************************************************)
\* request bodies: the bytes (named), whether they are JSON, and the value
\* they parse to
OaBodies ==
    { [id |-> "alert", parses |-> TRUE,
       json |-> JObj([symbol |-> JStr(SYM_BTC), close |-> JInt(1)])],
      [id |-> "empty", parses |-> TRUE, json |-> JObj(EmptyDict)],
      [id |-> "text", parses |-> FALSE, json |-> JNull],
      [id |-> "badnum", parses |-> TRUE,
       json |-> JObj([symbol |-> JStr(SYM_ETH), close |-> JStr(<<"a", "b", "c">>)])],
      [id |-> "list", parses |-> TRUE, json |-> JArr(<<JInt(1)>>)] }

\* hmac.new(key, data, sha256).hexdigest(): one digest per key and data
Hmac(key, id) == [key |-> key, data |-> id]
\* no X-Signature header: the empty string
NoSignature == Hmac("", "")

OaRoutes == {"POST /tv", "POST /scan-now", "GET /scan-now"}

\* the X-Signature values a sender may put on a body: none, the digest
\* under the configured secret, under another key, and of another body
SignaturesFor(b) ==
    {NoSignature, Hmac(AUTH_SHARED, b.id), Hmac("guess", b.id), Hmac(AUTH_SHARED, "other")}

\* verify_signature(req)
verify_signature(q) ==
    IF AUTH_SHARED = "" THEN TRUE
    ELSE q.signature = Hmac(AUTH_SHARED, q.body.id)

\* request.get_json(silent=True): the parsed body of a request declared as
\* JSON, else None
get_json(q) == IF q.is_json /\ q.body.parses THEN q.body.json ELSE JNull

\* tv, lines 103-106: get_json, else json.loads of the bytes, else the
\* text under "message"
RawOfTv(q) ==
    IF PyTruthy(get_json(q)) THEN get_json(q)
    ELSE IF q.body.parses THEN q.body.json
    ELSE JObj([message |-> JStr(<<"h", "i">>)])

\* scan_now, line 117: get_json(silent=True) or {}
RawOfScan(q) == IF PyTruthy(get_json(q)) THEN get_json(q) ELSE JObj(EmptyDict)

\* normalize_payload(raw), in the fields the bodies of the model set (no
\* message of the model is JSON text): raw.get fails on a value that is no
\* dict, float(...) on a price that is no number
normalize_payload(raw) ==
    IF raw.k # "dict" THEN Raised
    ELSE
        LET a == Get(raw.v, "CMP", JNull)
            b == Get(raw.v, "close", JNull)
            c == Get(raw.v, "price", JNull)
            p == IF PyTruthy(a) THEN a
                 ELSE IF PyTruthy(b) THEN b
                 ELSE IF PyTruthy(c) THEN c ELSE JInt(0)
            cmp == PyFloat(p)
        IN IF cmp.raised THEN Raised
           ELSE Ok([symbol |-> Get(raw.v, "symbol", JNull), cmp |-> cmp.v, raw |-> raw])

OaResp(route, status) == [route |-> route, status |-> status]

\* lines 108-112 and 119-123: call_gpt5(struct) is called, and returns or
\* raises; the call is recorded with the request it was made for
CallGpt(q, struct) ==
    /\ Len(gpt_calls) < MaxGptCalls
    /\ gpt_calls' = Append(gpt_calls,
                       [route |-> q.route, body |-> q.body.id,
                        signed |-> q.signature = Hmac(AUTH_SHARED, q.body.id)])
    /\ \E returns \in BOOLEAN :
          oa_resp' = OaResp(q.route, IF returns THEN 200 ELSE 500)

\* POST /tv, lines 100-112
tv(q) ==
    /\ q.route = "POST /tv"
    /\ IF ~verify_signature(q)
       THEN oa_resp' = OaResp(q.route, 401) /\ UNCHANGED gpt_calls
       ELSE LET struct == normalize_payload(RawOfTv(q))
            IN IF struct.raised
               THEN oa_resp' = OaResp(q.route, 500) /\ UNCHANGED gpt_calls
               ELSE CallGpt(q, struct.v)
    /\ UNCHANGED AUTH_SHARED
    /\ UNCHANGED <<coreVars, wrapVars, indVars, setupVars>>

\* GET and POST /scan-now, lines 114-124
scan_now(q) ==
    /\ q.route \in {"POST /scan-now", "GET /scan-now"}
    /\ IF q.route = "GET /scan-now"
       THEN oa_resp' = OaResp(q.route, 200) /\ UNCHANGED gpt_calls
       ELSE LET struct == normalize_payload(RawOfScan(q))
            IN IF struct.raised
               THEN oa_resp' = OaResp(q.route, 500) /\ UNCHANGED gpt_calls
               ELSE CallGpt(q, struct.v)
    /\ UNCHANGED AUTH_SHARED
    /\ UNCHANGED <<coreVars, wrapVars, indVars, setupVars>>

OaRequests ==
    UNION { [route : OaRoutes, body : {b}, is_json : BOOLEAN,
             signature : SignaturesFor(b)] : b \in OaBodies }

InitOpenai ==
    /\ AUTH_SHARED \in Secrets
    /\ gpt_calls = <<>>
    /\ oa_resp = OaResp("", 0)
    /\ CoreIdle
    /\ WrapIdle /\ IndIdle /\ SetupIdle

NextOpenai ==
    \/ \E q \in OaRequests : tv(q)
    \/ \E q \in OaRequests : scan_now(q)

SpecOpenai == InitOpenai /\ [][NextOpenai]_vars

(***************************************************************************)
(* The alert set-up script (src/setup_alerts.py): process_symbol switches  *)
(* the chart through the timeframes and creates an alert on each.          *)
(***************************************************************************)
\* tfs = ["1D", "4H", "1H", "15M"], and "5M" in sniper mode
TimeframesOf(s) ==
    IF s THEN <<"1D", "4H", "1H", "15M", "5M">> ELSE <<"1D", "4H", "1H", "15M">>

\* the timeframe the chart shows once the template is applied
TemplateTimeframes == {"1W", "1H"}

\* lines 208-211: the timeframe menu and the timeframe are clicked, each
\* click succeeding or not (safe_click returns False on a timeout or an
\* error, and the result is dropped); the chart changes when both clicks
\* succeeded
switch_timeframe(menu_ok, tf_ok) ==
    /\ tf_step = "switch"
    /\ chart_tf' = IF menu_ok /\ tf_ok THEN TimeframesOf(sniper)[tf_pos] ELSE chart_tf
    /\ tf_step' = "create"
    /\ UNCHANGED <<sniper, tf_pos, created>>
    /\ UNCHANGED <<coreVars, wrapVars, indVars, openaiVars>>

\* line 212 and create_alert, lines 172-194: the alert dialog is driven
\* with clicks that succeed or not; an alert saved is one on the timeframe
\* the chart shows
create_alert(saved) ==
    /\ tf_step = "create"
    /\ created' = IF saved
                  THEN Append(created, [tf |-> TimeframesOf(sniper)[tf_pos],
                                        chart |-> chart_tf])
                  ELSE created
    /\ tf_pos' = tf_pos + 1
    /\ tf_step' = IF tf_pos = Len(TimeframesOf(sniper)) THEN "done" ELSE "switch"
    /\ UNCHANGED <<sniper, chart_tf>>
    /\ UNCHANGED <<coreVars, wrapVars, indVars, openaiVars>>

\* process_symbol, lines 201-207: the chart of the symbol is open, the
\* template is applied
InitSetup ==
    /\ sniper \in BOOLEAN
    /\ tf_pos = 1
    /\ tf_step = "switch"
    /\ chart_tf \in TemplateTimeframes
    /\ created = <<>>
    /\ CoreIdle
    /\ WrapIdle /\ IndIdle /\ OpenaiIdle

NextSetup ==
    \/ \E menu_ok, tf_ok \in BOOLEAN : switch_timeframe(menu_ok, tf_ok)
    \/ \E saved \in BOOLEAN : create_alert(saved)

SpecSetup == InitSetup /\ [][NextSetup]_vars

(***************************************************************************)
(* Properties.                                                             *)
(***************************************************************************)
IsLatest == resp.route = "GET /tv/latest"
IsUnfilteredLatest == IsLatest /\ resp.req.list = <<>>
ItemSymbols == { resp.body.items[i].symbol : i \in 1..Len(resp.body.items) }
Stores == <<state_by_symbol, blofin_positions_push>>

\* C1: the store holds one record per canonical symbol, that record is the
\* one of the most recent accepted WWASD_STATE request whose symbol
\* canonicalizes to the key, and /tv/latest returns, per symbol, only the
\* payload of that most recent request.
C1_LastWriteWins ==
    /\ DOMAIN state_by_symbol = DOMAIN last_accepted
    /\ \A k \in DOMAIN state_by_symbol :
          LET rec == state_by_symbol[k]
              accepted == last_accepted[k]
          IN /\ rec.symbol = k
             /\ rec.state = accepted.body.state
             /\ rec.server_received_ms = accepted.at
    /\ IsLatest =>
          LET items == resp.body.items IN
          /\ \A i, j \in 1..Len(items) : items[i].symbol = items[j].symbol => i = j
          /\ \A i \in 1..Len(items) :
                /\ items[i].symbol \in DOMAIN last_accepted
                /\ items[i].state = last_accepted[items[i].symbol].body.state
                /\ items[i].server_received_ms = last_accepted[items[i].symbol].at
          /\ resp.req.list = <<>> => ItemSymbols = DOMAIN last_accepted

\* a read right after a symbol was ingested a second time, later and under
\* another payload
C1_Witness ==
    /\ IsUnfilteredLatest
    /\ resp.body.count = 1
    /\ \E k \in DOMAIN last_accepted :
          /\ last_accepted[k].n = 2
          /\ last_accepted[k].at > 0
          /\ state_by_symbol[k].state = "flat"

\* the store holds exactly one record, ingested into the empty store at the
\* present instant
OnlyJustIngested(k) ==
    /\ DOMAIN last_accepted = {k}
    /\ last_accepted[k].n = 1
    /\ last_accepted[k].at = now

\* C2: after one WWASD_STATE ingest for S into the empty store, an immediate
\* unfiltered /tv/latest returns count 1 and one item, whose symbol is
\* canonical_symbol(S) and whose is_fresh is true.
C2_IngestThenRead ==
    \A k \in DOMAIN last_accepted :
        (IsUnfilteredLatest /\ OnlyJustIngested(k)) =>
            /\ resp.body.count = 1
            /\ Len(resp.body.items) = 1
            /\ resp.body.items[1].symbol =
                   canonical_symbol(last_accepted[k].body.symbol)
            /\ resp.body.items[1].is_fresh = TRUE

\* the read follows the ingest of a symbol sent in lower case with padding
C2_Witness ==
    /\ IsUnfilteredLatest
    /\ \E k \in DOMAIN last_accepted :
          /\ OnlyJustIngested(k)
          /\ last_accepted[k].body.symbol = SYM_link_padded
          /\ resp.body.items[1].symbol = S_BLOFIN \o <<":">> \o <<"L","I","N","K">> \o S_USDT_P

\* C3: canonical_symbol(canonical_symbol(x)) = canonical_symbol(x) for every
\* input x.
C3_Idempotent == Len(sym_images) = 2 => sym_images[2] = sym_images[1]

\* C4: no step removes a key of state_by_symbol, and an unfiltered
\* /tv/latest returns every stored record, with is_fresh false once the
\* record is older than the window.
C4_NeverDeleted ==
    /\ [][DOMAIN state_by_symbol \subseteq DOMAIN state_by_symbol']_vars
    /\ [](IsUnfilteredLatest =>
            \A k \in DOMAIN state_by_symbol :
                \E i \in 1..Len(resp.body.items) :
                    /\ resp.body.items[i].symbol = k
                    /\ (now - state_by_symbol[k].server_received_ms
                            > resp.req.max_age_secs * 1000)
                        => resp.body.items[i].is_fresh = FALSE)

\* a read that returns a record older than the window
C4_Witness ==
    /\ IsUnfilteredLatest
    /\ \E i \in 1..Len(resp.body.items) :
          /\ resp.body.items[i].is_fresh = FALSE
          /\ now - resp.body.items[i].server_received_ms > resp.req.max_age_secs * 1000

\* C5: /tv/latest reports is_fresh exactly for the records with
\* now - server_received_ms <= max_age_secs * 1000, and /blofin/latest
\* reports fresh exactly when a snapshot exists and satisfies the same
\* inequality for the max_age_secs of that request.
C5_FreshIff ==
    /\ IsLatest =>
          \A i \in 1..Len(resp.body.items) :
              resp.body.items[i].is_fresh <=>
                  (now - state_by_symbol[resp.body.items[i].symbol].server_received_ms
                      <= resp.req.max_age_secs * 1000)
    /\ resp.route = "GET /blofin/latest" =>
          (resp.body.fresh <=>
              /\ blofin_positions_push # NoDict
              /\ now - blofin_positions_push.server_received_ms
                     <= resp.req.max_age_secs * 1000)

\* a record read exactly at the edge of its window
C5_Witness ==
    /\ IsLatest
    /\ \E i \in 1..Len(resp.body.items) :
          /\ now - resp.body.items[i].server_received_ms = resp.req.max_age_secs * 1000
          /\ resp.req.max_age_secs > 0
          /\ resp.body.items[i].is_fresh = TRUE

\* the step handles a POST /tv
PostStep == nPosts' = nPosts + 1 /\ resp'.route = "POST /tv"

\* the request passed the shared-secret check
Authorized == resp'.status # 403

\* C6 as stated: an authorized POST /tv whose type is missing or is not the
\* string WWASD_STATE or BLOFIN_POSITIONS answers ok and changes no store.
C6_Original ==
    [][PostStep => \A r \in Requests :
          (/\ Authorized
           /\ \/ "type" \notin DOMAIN r.body
              \/ r.body.type \notin {S_WWASD_STATE, S_BLOFIN_POSITIONS}
           /\ tv_ingest(r))
          => /\ resp'.status = 200
             /\ resp'.body.ok = TRUE
             /\ UNCHANGED Stores]_vars

\* C6 amended: the type is compared without regard to case.
C6_UnknownTypeIgnored ==
    [][PostStep => \A r \in Requests :
          (/\ Authorized
           /\ \/ "type" \notin DOMAIN r.body
              \/ Upper(r.body.type) \notin {S_WWASD_STATE, S_BLOFIN_POSITIONS}
           /\ tv_ingest(r))
          => /\ resp'.status = 200
             /\ resp'.body.ok = TRUE
             /\ UNCHANGED Stores]_vars

\* an unknown type was ignored while a store held data
C6_Witness ==
    /\ resp = IgnoredResp
    /\ state_by_symbol # EmptyDict \/ blofin_positions_push # NoDict

\* C7: with a secret configured, a POST /tv that carries the secret neither
\* in ?token= nor in the body is answered 403 and changes no store.
C7_RejectedWithoutToken ==
    [][PostStep => \A r \in Requests :
          (/\ AUTH_SHARED_SECRET # ""
           /\ r.qs_token # AUTH_SHARED_SECRET
           /\ Get(r.body, "token", None) # AUTH_SHARED_SECRET
           /\ tv_ingest(r))
          => /\ resp'.status = 403
             /\ UNCHANGED Stores]_vars

\* a request was rejected while the store held a record
C7_Witness ==
    /\ AUTH_SHARED_SECRET # ""
    /\ resp = Forbidden
    /\ state_by_symbol # EmptyDict

\* C8 as stated: the secret in ?token= or in a request header authorizes.
C8_Original ==
    [][PostStep => \A r \in Requests :
          (/\ \/ AUTH_SHARED_SECRET = ""
              \/ r.qs_token = AUTH_SHARED_SECRET
              \/ r.hdr_token = AUTH_SHARED_SECRET
           /\ tv_ingest(r))
          => resp'.status # 403]_vars

\* C8 amended: the secret in ?token= or in the token field of the JSON body
\* authorizes; with no secret configured every request is authorized.
C8_TokenAuthorizes ==
    [][PostStep => \A r \in Requests :
          (/\ \/ AUTH_SHARED_SECRET = ""
              \/ r.qs_token = AUTH_SHARED_SECRET
              \/ Get(r.body, "token", None) = AUTH_SHARED_SECRET
           /\ tv_ingest(r))
          => resp'.status # 403]_vars

\* with a secret configured, a record whose body carried the secret was stored
C8_Witness ==
    /\ AUTH_SHARED_SECRET # ""
    /\ resp.route = "POST /tv"
    /\ resp.status = 200
    /\ \E k \in DOMAIN state_by_symbol :
          /\ Get(state_by_symbol[k], "token", None) = AUTH_SHARED_SECRET
          /\ last_accepted[k].at = now

\* C9: an authorized WWASD_STATE request whose symbol is absent or blank is
\* answered 400 and changes no store.
C9_MissingSymbolRejected ==
    [][PostStep => \A r \in Requests :
          (/\ Authorized
           /\ "type" \in DOMAIN r.body
           /\ Upper(r.body.type) = S_WWASD_STATE
           /\ \/ "symbol" \notin DOMAIN r.body
              \/ Strip(r.body.symbol) = <<>>
           /\ tv_ingest(r))
          => /\ resp'.status = 400
             /\ UNCHANGED Stores]_vars

\* a request without symbol was rejected while the store held a record
C9_Witness ==
    /\ resp = MissingSymbol
    /\ state_by_symbol # EmptyDict

\* C10: /tv/latest?list=<unknown name> returns count 0 and no items.
C10_UnknownListEmpty ==
    (IsLatest /\ Strip(Lower(resp.req.list))
                    \notin { <<>>, <<"g","r","e","e","n">>, <<"m","a","c","r","o">>,
                             <<"f","u","l","l">> })
    => /\ resp.body.count = 0
       /\ resp.body.items = <<>>

\* the name the list= parameter resolves to
ListKey(list_name) == Strip(Lower(list_name))

\* the entries of a configured watchlist, as written in the environment
EnvEntries(raw) ==
    { Strip(SplitComma(raw)[i]) : i \in 1..Len(SplitComma(raw)) } \ { <<>> }

ConfiguredEntries ==
    [ln \in { <<"g","r","e","e","n">>, <<"m","a","c","r","o">>, <<"f","u","l","l">> } |->
        IF ln = <<"g","r","e","e","n">> THEN EnvEntries(ENV_GREEN_LIST)
        ELSE IF ln = <<"m","a","c","r","o">> THEN EnvEntries(ENV_MACRO_LIST)
        ELSE EnvEntries(ENV_FULL_LIST)]

\* the canonical keys of the entries of a configured watchlist
ConfiguredKeys ==
    [ln \in DOMAIN ConfiguredEntries |->
        { canonical_symbol(e) : e \in ConfiguredEntries[ln] }]

\* C11: when the named watchlist is configured but empty,
\* /tv/latest?list=<name> returns every stored symbol.
C11_EmptyListFallsBack ==
    (/\ IsLatest
     /\ ListKey(resp.req.list) \in DOMAIN ConfiguredEntries
     /\ ConfiguredEntries[ListKey(resp.req.list)] = {})
    => /\ ItemSymbols = DOMAIN state_by_symbol
       /\ resp.body.count = Cardinality(DOMAIN state_by_symbol)

\* C12: for a configured non-empty watchlist L, /tv/latest?list=L returns
\* exactly the stored records whose raw ingested symbol canonicalizes to the
\* key of some configured entry of L, each with is_fresh, and no others.
C12_ExactlyListed ==
    (/\ IsLatest
     /\ ListKey(resp.req.list) \in DOMAIN ConfiguredEntries
     /\ ConfiguredEntries[ListKey(resp.req.list)] # {})
    => /\ ItemSymbols =
              { k \in DOMAIN last_accepted :
                    Parsed[last_accepted[k].body].key
                        \in ConfiguredKeys[ListKey(resp.req.list)] }
       /\ \A i \in 1..Len(resp.body.items) :
              "is_fresh" \in DOMAIN resp.body.items[i]

\* the records a positions push carries: the list at data.data, else the
\* list at data, else the list at positions, else none
PushedRecords(push) ==
    LET d == Get(push, "data", EmptyDict)
        dd == Get(d, "data", EmptyDict)
        p == Get(push, "positions", EmptyDict)
    IN IF dd # EmptyDict THEN dd
       ELSE IF d # EmptyDict /\ "data" \notin DOMAIN d THEN d
       ELSE p

\* C13: before any BLOFIN_POSITIONS ingest, /blofin/latest returns exactly
\* {"fresh": false, "ts": null, "positions": [], "data": null}.
C13_EmptyBlofinEnvelope ==
    (resp.route = "GET /blofin/latest" /\ blofin_positions_push = NoDict)
    => /\ resp.status = 200
       /\ resp.body = [fresh |-> FALSE, ts |-> None, positions |-> <<>>,
                        data |-> None]

\* C14: after a BLOFIN_POSITIONS ingest, /blofin/latest reports a positions
\* list of exactly the pushed records (the empty list when the push carries
\* none).
C14_PositionsReported ==
    (resp.route = "GET /blofin/latest" /\ blofin_positions_push # NoDict)
    => /\ resp.status = 200
       /\ "positions" \in DOMAIN resp.body
       /\ resp.body.positions = PushedRecords(blofin_positions_push)

EnvelopeKeys == {"fresh", "ts", "age_sec", "data"}

\* C15: whatever file the store loaded at startup and whatever payloads it
\* was updated with, the /blofin/latest route of the store answers with
\* status 200 and an envelope holding fresh, ts, age_sec and data.
C15_NeverRaises ==
    hres # NoHres
    => /\ hres.status = 200
       /\ EnvelopeKeys \subseteq DOMAIN hres.body

\* C16: a store constructed on the same path after any updates, some of
\* whose disk writes failed, has as its snapshot the object of the most
\* recent update whose _write_atomic completed, or the default envelope if
\* none did.
C16_RestartRecovers ==
    [][boots' = boots + 1 => last' = persisted]_vars

\* the process restarted after an update that was written and a later one
\* whose write failed
C16_Witness ==
    /\ boots = 1
    /\ hres = NoHres
    /\ persisted # DefaultEnvelope
    /\ last = persisted
    /\ \E t \in UpdateCalls : upd[t].pc = "returned" /\ ~upd[t].wrote

\* C17: at every instant the file at the canonical path is absent or the
\* whole serialization of the object of one update.
C17_PathAbsentOrWhole ==
    \/ fs.path = Absent
    \/ /\ persisted # DefaultEnvelope
       /\ fs.path = json_dump(persisted)

\* the path holds one update's object while another update, holding the
\* lock, has written part of its own to the temporary file
C17_Witness ==
    /\ fs.path.k = "whole"
    /\ fs.tmp.k = "cut"
    /\ fs.tmp.of # fs.path.of
    /\ \E t \in UpdateCalls : lock = t /\ upd[t].pc = "opened"

\* C18: when the disk write of an update fails, update returns normally,
\* the snapshot in memory is the new object, and the next latest() returns
\* the data of that update.
C18_FailedWriteKeepsMemory ==
    [][\A t \in UpdateCalls :
          (upd[t].pc = "unlock" /\ ~upd[t].wrote /\ upd'[t].pc = "returned")
          => /\ last' = upd[t].obj
             /\ ~LatestOf(last', time_ms').raised
             /\ LatestOf(last', time_ms').v.data = upd[t].obj.v.data]_vars

\* an update whose write failed returned, and the read after it answered
\* with data that is not on disk
C18_Witness ==
    /\ \E t \in UpdateCalls : upd[t].pc = "returned" /\ ~upd[t].wrote
    /\ \A t \in UpdateCalls : upd[t].pc \in {"idle", "returned"} /\ ~upd[t].wrote
    /\ hres.status = 200
    /\ hres.body.data = last.v.data
    /\ fs.path = Absent

\* a payload without its sender-supplied ts
WithoutTs(p) == [f \in DOMAIN p \ {"ts"} |-> p[f]]

\* C20: the fresh flag of the persisted snapshot depends on the server
\* receipt time and the read time only: had the stored push differed in its
\* sender-supplied ts alone, the read would have reported the same fresh.
C20_FreshIgnoresSenderTs ==
    (/\ hres.status = 200
     /\ last.k = "dict"
     /\ "server_received_ms" \in DOMAIN last.v)
    => \A q \in StorePayloads :
          LET o == BuildObj(q, last.v.server_received_ms.v) IN
          (WithoutTs(q) = WithoutTs(last.v.data.v) /\ ~o.raised)
          => LatestOf(o.v, time_ms).v.fresh = hres.body.fresh

\* C19: a /tv/latest request that ran while POST /tv requests were handled,
\* one inserting a new symbol included, completed with status 200 and
\* returned the store as it was at one instant of the read.
C19_ConcurrentReadSnapshot ==
    (resp.route = "GET /tv/latest" /\ "snaps" \in DOMAIN resp)
    => /\ resp.status = 200
       /\ \E store \in resp.snaps :
             resp.body = LatestBody(store, resp.at, resp.req.list,
                                    resp.req.max_age_secs)

\* base tickers, and the four spellings of the perpetual swap of one
BaseTickers == { <<"l","i","n","k">>, <<"T","O","T","A","L">> }
PerpSpellings(B) ==
    { B \o S_SLASH_USDT_P, B \o S_USDT_P,
      S_BLOFIN \o <<":">> \o B \o S_USDT_P,
      S_BLOFIN \o <<":">> \o B \o S_SLASH_USDT_P }

\* a bare macro ticker: no namespace, no blank, and one of the macro hints
IsBareMacro(M) ==
    /\ M # <<>>
    /\ \A i \in 1..Len(M) : M[i] \notin Whitespace \cup {":"}
    /\ looks_like_macro_bare(M)

\* C21: the four spellings B/USDT.P, BUSDT.P, BLOFIN:BUSDT.P and
\* BLOFIN:B/USDT.P of a base ticker B canonicalize to BLOFIN:BUSDT.P, and a
\* bare macro ticker M and CRYPTOCAP:M canonicalize to CRYPTOCAP:M.
C21_SpellingsCollapse ==
    sym_images # <<>> =>
        /\ \A B \in BaseTickers :
              sym_in \in PerpSpellings(B)
              => sym_images[1] = S_BLOFIN \o <<":">> \o Upper(B) \o S_USDT_P
        /\ IsBareMacro(sym_in)
              => sym_images[1] = S_CRYPTOCAP \o <<":">> \o Upper(sym_in)
        /\ (StartsWith(sym_in, S_CRYPTOCAP \o <<":">>)
              /\ IsBareMacro(SplitAfter(sym_in, ":")))
              => sym_images[1] = Upper(sym_in)

\* the namespace a sender's symbol carries: the text before the first colon,
\* upper-cased and without spaces
VendorOf(raw_sym) == RemoveChar(Upper(SplitBefore(raw_sym, ":")), " ")

\* a stored WWASD_STATE request whose symbol is VENDOR:REST
NamespacedIngest(r) ==
    /\ BranchOf(TypOf(r.body)) = "state"
    /\ Contains(RawSymOf(r.body), <<":">>)
    /\ resp'.status = 200
    /\ tv_ingest(r)

C24_ReceiptIsServerClock ==
    /\ \A k \in DOMAIN state_by_symbol :
          /\ k \in DOMAIN last_accepted
          /\ state_by_symbol[k].server_received_ms = last_accepted[k].at
          /\ state_by_symbol[k].server_received_ms \in Instants
    /\ blofin_positions_push # NoDict
          => /\ blofin_positions_push.server_received_ms \in Instants
             /\ blofin_positions_push.server_received_ms <= now

\* both stores hold a record whose sender supplied a stamp of its own, the
\* state record ingested after the clock moved
C24_Witness ==
    /\ now > 0
    /\ \E k \in DOMAIN state_by_symbol :
          /\ "server_received_ms" \in DOMAIN last_accepted[k].body
          /\ last_accepted[k].body.server_received_ms # now
          /\ state_by_symbol[k].server_received_ms = now
    /\ blofin_positions_push # NoDict
    /\ \E b \in PositionBodies : "server_received_ms" \in DOMAIN b

ReadRoutes == {"GET /tv/latest", "GET /blofin/latest", "GET /snap"}

\* the freshness an item of a response must carry when read at t
ItemFreshAt(item, store, t, max_age_secs) ==
    item.is_fresh = IsFresh(t, store[item.symbol].server_received_ms, max_age_secs)

\* envelopes _BlofinStore can hold
StoredEnvelopes ==
    { DefaultEnvelope }
    \cup { BuildObj(pl, t).v :
             pl \in { x \in StorePayloads : ~BuildObj(x, StoreStart).raised },
             t \in StoreInstants }

\* _BlofinStore.latest gives the same answer whatever fresh flag is stored
LatestIgnoresStoredFlag ==
    \A l \in StoredEnvelopes, f \in BOOLEAN, t \in StoreInstants :
        LatestOf(JObj(SetKey(l.v, "fresh", JBool(f))), t) = LatestOf(l, t)

\* C25: freshness is never cached.  A read (/tv/latest, /snap,
\* /blofin/latest) leaves every store as it was, so no stored record gains
\* or changes an is_fresh or fresh field, and the freshness it reports is
\* computed from the stored receipt stamp and the clock of the read, also
\* for a record that carries an is_fresh of its own; _BlofinStore.latest
\* answers the same whatever fresh flag the stored envelope holds.
C25_FreshnessNotCached ==
    [][resp'.route \in ReadRoutes =>
        /\ UNCHANGED Stores
        /\ resp'.route = "GET /tv/latest" =>
              \A i \in 1..Len(resp'.body.items) :
                  ItemFreshAt(resp'.body.items[i], state_by_symbol, now',
                              resp'.req.max_age_secs)
        /\ resp'.route = "GET /snap" =>
              \A n \in DOMAIN resp'.body :
                  (n # S_port /\ resp'.body[n].k = "dict") =>
                      \A i \in 1..Len(resp'.body[n].v.items) :
                          ItemFreshAt(resp'.body[n].v.items[i], state_by_symbol, now',
                                      resp'.req.max_age_secs)
        /\ resp'.route = "GET /blofin/latest" =>
              resp'.body.fresh =
                  (/\ blofin_positions_push # NoDict
                   /\ IsFresh(now', blofin_positions_push.server_received_ms,
                              resp'.req.max_age_secs))
        /\ LatestIgnoresStoredFlag]_vars

\* a record stored with is_fresh true by its sender is reported stale
C25_Witness ==
    /\ IsLatest
    /\ \E i \in 1..Len(resp.body.items) :
          /\ resp.body.items[i].is_fresh = FALSE
          /\ Get(state_by_symbol[resp.body.items[i].symbol], "is_fresh", FALSE) = TRUE

\* C26: a POST /tv whose body is not a JSON object, unparseable or a valid
\* JSON array, string, number or null, is answered 400 and alters no store.
C26_NonObjectRejected ==
    [][PostStep => \A r \in MalformedRequests :
          tv_ingest(r) => /\ resp'.status = 400
                          /\ UNCHANGED Stores]_vars

\* the buckets of a /snap response: the entries other than ts and port
SnapBuckets(out) == { n \in DOMAIN out : n \notin {S_ts, S_port} }

\* C27: in a /snap response each bucket's count is the number of its
\* items, with fresh_only every item is fresh, ts is the integer server
\* time and port is the position envelope, also when a list is named ts or
\* port.
C27_SnapShape ==
    resp.route = "GET /snap" =>
        /\ \A n \in SnapBuckets(resp.body) :
              /\ resp.body[n].v.count = Len(resp.body[n].v.items)
              /\ resp.req.fresh_only =>
                    \A i \in 1..Len(resp.body[n].v.items) :
                        resp.body[n].v.items[i].is_fresh = TRUE
        /\ resp.body[S_ts] = JInt(now)
        /\ resp.body[S_port] = JObj(BlofinBody(blofin_positions_push, now, 900))

\* every update call that started has returned, and each wrote its object
AllWritesDone ==
    /\ \A t \in UpdateCalls : upd[t].pc \in {"idle", "returned"}
    /\ \A t \in UpdateCalls : upd[t].pc = "returned" => upd[t].wrote
    /\ \E t \in UpdateCalls : upd[t].pc = "returned"

\* C28: when every disk write succeeds, then after any set of concurrent
\* update calls has completed the file at the path is the serialization of
\* the snapshot in memory.
C28_FileMatchesMemory ==
    AllWritesDone => fs.path = json_dump(last)

\* two updates that overlapped have both returned, each having written
C28_Witness ==
    /\ \A t \in UpdateCalls : upd[t].pc = "returned" /\ upd[t].wrote
    /\ Cardinality(UpdateCalls) > 1
    /\ fs.path = json_dump(last)
    /\ fs.tmp = Absent

\* C29: handle_blofin_payload raises for no dict payload, whatever the type
\* of its ts field, and always installs the payload: no update call ends
\* in an exception.
C29_UpdateNeverRaises ==
    \A t \in UpdateCalls : upd[t].pc # "raised"

\* C30: alert_log holds only alerts of the current UTC day: the UTC date of
\* every entry's ts is last_log_date, also for a request stamped just
\* before midnight and logged after the rollover.
C30_LogHoldsToday ==
    \A i \in 1..Len(alert_log) : alert_log[i].ts.date = last_log_date

\* a response that is JSON of the shape the relay answers with
WellFormed(o) ==
    /\ o.kind = "json"
    /\ o.positions.k \in {"missing", "array"}
    /\ ~HasNull(o.positions.items)

\* C23: the polling loop of /port2.html never fails closed.  Every load()
\* that ends leaves the page showing data or showing the error pill and the
\* error message; it shows the error when the fetch or the JSON parse
\* failed; the interval stays armed, so polling goes on after an error; and
\* a load that succeeds, also after an error, leaves the page showing data
\* with the pill of the response.
C23_NeverFailsClosed ==
    [][/\ timer'
       /\ inflight' < inflight =>
             LET o == done'.outcome IN
             /\ RenderedState(page_kind, dom') \/ ErrorState(page_kind, dom')
             /\ o.kind \in {"network_error", "not_json"}
                   => ErrorState(page_kind, dom')
             /\ WellFormed(o)
                   => /\ RenderedState(page_kind, dom')
                      /\ ~ErrorState(page_kind, dom')
                      /\ (IF page_kind = "app" THEN dom'.fresh.text = "fresh"
                          ELSE dom'.statusPill.text = "FRESH") <=> o.fresh]_vars

\* a load succeeded on a page that was showing an error, with the next
\* load already under way
C23_Witness ==
    /\ done # NoDone
    /\ done.after_error
    /\ WellFormed(done.outcome)
    /\ RenderedState(page_kind, dom)
    /\ timer

\* C32: a WWASD_STATE ingest for S changes only the entry of
\* state_by_symbol under the canonical key of S, all other entries and the
\* position snapshot staying as they were, and a BLOFIN_POSITIONS ingest
\* changes only the position snapshot.
C32_IngestFrame ==
    [][PostStep => \A r \in Requests :
          tv_ingest(r) =>
              LET key == Parsed[r.body].key IN
              /\ BranchOf(TypOf(r.body)) = "state" =>
                    /\ blofin_positions_push' = blofin_positions_push
                    /\ DOMAIN state_by_symbol \subseteq DOMAIN state_by_symbol'
                    /\ DOMAIN state_by_symbol' \subseteq DOMAIN state_by_symbol \cup {key}
                    /\ \A k \in DOMAIN state_by_symbol \ {key} :
                          state_by_symbol'[k] = state_by_symbol[k]
              /\ BranchOf(TypOf(r.body)) = "positions" =>
                    state_by_symbol' = state_by_symbol]_vars

\* a second symbol was just stored beside a record of another symbol that
\* is older
C32_Witness ==
    /\ Cardinality(DOMAIN state_by_symbol) = 2
    /\ \E k \in DOMAIN state_by_symbol :
          /\ resp = StoredResp(k)
          /\ state_by_symbol[k].server_received_ms = now
          /\ \E j \in DOMAIN state_by_symbol :
                j # k /\ state_by_symbol[j].server_received_ms < now

\* the fields of a body that hold opaque strings
OpaqueFields == {"token", "state"}

\* the dicts a read response carries: the items of /tv/latest, the items of
\* every bucket of /snap, and the snapshot inside a positions envelope
ResponseDicts ==
    IF resp.route = "GET /tv/latest"
    THEN { resp.body.items[i] : i \in 1..Len(resp.body.items) }
    ELSE IF resp.route = "GET /blofin/latest"
    THEN (IF resp.body.data = None THEN {} ELSE {resp.body.data})
    ELSE IF resp.route = "GET /snap"
    THEN UNION { { resp.body[n].v.items[i] : i \in 1..Len(resp.body[n].v.items) } :
                   n \in SnapBuckets(resp.body) }
         \cup (IF resp.body[S_port].v.data = None THEN {}
               ELSE {resp.body[S_port].v.data})
    ELSE {}

\* C33: the configured shared secret appears in the response of no read
\* endpoint (/tv/latest, /snap, /blofin/latest), also after an authorized
\* ingest that carried the secret as the token field of its body.
C33_SecretNotInReads ==
    AUTH_SHARED_SECRET # "" =>
        \A d \in ResponseDicts :
            \A f \in DOMAIN d \cap OpaqueFields : d[f] # AUTH_SHARED_SECRET

\* the receipt stamp of a snapshot, 0 for the default envelope
ReceivedOf(l) ==
    IF l.k = "dict" /\ "server_received_ms" \in DOMAIN l.v
    THEN l.v.server_received_ms.v ELSE 0

\* C34: under concurrent update calls the server_received_ms of the
\* snapshot in memory never decreases from one installed snapshot to the
\* next: an update stamped earlier never overwrites one stamped later.
C34_StampNeverDecreases ==
    [][(\E t \in UpdateCalls : upd[t].pc = "built" /\ upd'[t].pc = "locked")
          => ReceivedOf(last') >= ReceivedOf(last)]_vars

\* the alert carries a ts that gives an instant, and that instant is on the
\* UTC day d
OnUtcDay(a, d) ==
    /\ "ts" \in DOMAIN a
    /\ \/ a.ts.k = "int" /\ DateOf(a.ts.ms \div 1000) = d
       \/ /\ a.ts.k = "str" /\ a.ts.iso
          /\ DateOf(a.ts.date * SECONDS_PER_DAY + a.ts.secs - a.ts.off * 3600) = d

\* C31: filter_today returns exactly the alerts whose timestamp falls on
\* the current UTC date: an alert whose ts is on another day, is missing or
\* cannot be parsed is not included.
C31_ExactlyToday ==
    alerts_today.ran =>
        alerts_today.out = SelectSeq(alerts, LAMBDA a : OnUtcDay(a, DateOf(wrap_now)))

\* C35: POST /tv_indicators is all-or-nothing: when the request ends in an
\* error, INDICATORS is exactly as it was before the request.
C35_AllOrNothing ==
    [][ind_resp'.status >= 400 => INDICATORS' = INDICATORS]_vars

\* C36: the stored count of a 200 equals the number of entries of
\* INDICATORS["data"] the request wrote, and INDICATORS["ts"] becomes the
\* time of the request exactly when at least one entry was written.
C36_StoredCountsWrites ==
    [][ind_resp'.status = 200 =>
          /\ ind_resp'.stored = Cardinality(ind_resp'.wrote)
          /\ ind_resp'.wrote # {} => INDICATORS'.ts = ind_now
          /\ ind_resp'.wrote = {} => INDICATORS'.ts = INDICATORS.ts]_vars

\* the POST /tv calls that have returned and were stamped on the day of t
DoneOn(w, t) ==
    { c \in WebhookCalls : w[c].pc = "done" /\ w[c].alert_data.ts.date = DateOf(t) }

\* C37: every POST /tv received during a UTC day leaves exactly one entry
\* in alert_log, and a /daily-summary that counts the log later the same
\* day counts that entry, whatever the interleaving of the requests.
C37_EveryAlertCounted ==
    [][/\ \A c \in DoneOn(wh', utc_now') :
             Cardinality({ i \in 1..Len(alert_log') :
                             alert_log'[i] = EntryOf(wh'[c].alert_data) })
               = Cardinality({ u \in DoneOn(wh', utc_now') :
                                 EntryOf(wh'[u].alert_data) = EntryOf(wh'[c].alert_data) })
       /\ summary.pc = "counting" /\ summary'.pc = "done" =>
             \A c \in DoneOn(wh, utc_now) :
                 LET k == EntryOf(wh[c].alert_data).ticker
                 IN /\ k \in DOMAIN summary'.counts
                    /\ summary'.counts[k] >=
                          Cardinality({ u \in DoneOn(wh, utc_now) :
                                          EntryOf(wh[u].alert_data).ticker = k })]_vars

\* C38: when AUTH_SHARED_SECRET is configured, call_gpt5 is invoked only
\* for requests that carry a valid X-Signature HMAC of their body, on any
\* route.
C38_GptOnlyWhenSigned ==
    AUTH_SHARED # "" => \A i \in 1..Len(gpt_calls) : gpt_calls[i].signed

\* the place of a timeframe in the order 1D, 4H, 1H, 15M, 5M
PlaceOf(tf) == CHOOSE i \in 1..5 : TimeframesOf(TRUE)[i] = tf

\* C39: process_symbol creates its alerts in the order 1D, 4H, 1H, 15M
\* (then 5M in sniper mode), and an alert for a timeframe is created only
\* on a chart that has been switched to that timeframe.
C39_AlertOnSwitchedChart ==
    /\ \A i, j \in 1..Len(created) :
          i < j => PlaceOf(created[i].tf) < PlaceOf(created[j].tf)
    /\ \A i \in 1..Len(created) : created[i].chart = created[i].tf

====
